---- MODULE Spec2Model ----
(***************************************************************************)
(* Packager/builder pipeline of mini-buildd.                               *)
(*                                                                         *)
(* One coordinator (the originator) with its ingest queue and its single   *)
(* ingest consumer (daemon.run -> packager.run), the per-upload Package    *)
(* state machine (precheck, dispatch, collect, decide), the dispatch of    *)
(* build-requests to candidate builders (Changes.upload_buildrequest) and  *)
(* the builder threads (builder.run -> builder.build) that return signed   *)
(* build-results through the originator's ingest.                          *)
(***************************************************************************)
EXTENDS Integers, Sequences, FiniteSets, TLC

(***************************************************************************)
(* Bounds of the model.                                                    *)
(***************************************************************************)
\* number of manifests the environment drops into the ingest through FTP
MaxInject == 2

\* the one upload that is followed: Changes.get_pkg_id() of foo 1.0-1
PID == "foo_1.0-1"

\* architectures of the distribution (dist.architectureoption_set), in order
ArchOrder == <<"amd64", "i386">>
Archs == {ArchOrder[i] : i \in 1..Len(ArchOrder)}
\* an architecture the distribution does not build for
OtherArch == "mips"
AllArchs == Archs \cup {OtherArch}

\* number of active remotes of a dispatch round
NRemotes == 2
RemoteNames == <<"r1", "r2", "r3", "r4">>
\* candidate builders of a dispatch round: own instance first, then the
\* active remotes (Remote.mbd_get_active_or_auto_reactivate)
CandOrder == <<"self">> \o SubSeq(RemoteNames, 1, NRemotes)
Candidates == {CandOrder[i] : i \in 1..Len(CandOrder)}
\* the builders of the pipeline: own instance and one remote
Builders == <<"self", "r1">>
BuilderSet == {Builders[i] : i \in 1..Len(Builders)}
\* loads (in hundredths, BlockQueue.load rounds to two decimals)
Loads == {10, 50, 90}

\* keys of the remotes keyring: own key and the keys of the active remotes
RemotesKeyring == {"self"} \cup {RemoteNames[i] : i \in 1..Len(RemoteNames)}

NoValue == "-"

(***************************************************************************)
(* Package and Build status values (packager.py:13-28, builder.py:19-32).  *)
(***************************************************************************)
PackageStati == {"FAILED", "REJECTED", "CHECKING", "BUILDING", "INSTALLING", "INSTALLED"}
BuildStati == {"FAILED", "CHECKING", "BUILDING", "UPLOADING", "UPLOADED"}

VARIABLES
    incoming_queue,   \* daemon.incoming_queue: FIFO of manifests at the originator
    uploaded,         \* the user upload has been put into the ingest
    ninject,          \* number of manifests received from the environment so far
    packages,         \* keys of daemon.packages (in-flight packages map)
    status,           \* Package status ("NONE": no Package object yet)
    requests,         \* Package.requests: set of architectures with a build-request
    success,          \* Package.success: arch -> build-result
    failed,           \* Package.failed:  arch -> build-result
    finished,         \* Package.finished is set
    ppc,              \* position of the ingest consumer: "idle" or "precheck"
    todo,             \* precheck: build-requests still to upload
    remote_http_url,  \* per request: Changes.remote_http_url
    dispatch,         \* per request: "none", "sent" (build-request uploaded), "failed"
                      \* (upload failed, failure result uploaded to ourselves) or
                      \* "lost" (upload failed, and so did that of the failure result)
    installs,         \* number of calls of Package.install
    trace,            \* sequence of the status values the Package went through
    build_queue,      \* per builder: daemon.build_queue (keys of build-requests)
    builds,           \* keys of daemon.builds of the builders
    bpc,              \* per request: position of its handling on the builder
    bstatus,          \* per request: Build status ("NONE": no Build object)
    spool,            \* per request: spool dir on the builder: "none", "started" (.sbuildrc
                      \* written) or "built" (signed build-result saved)
    bres,             \* per request: the Build's build-result manifest
    sbuild_runs,      \* per request: number of runs of the build tool
    delivered,        \* per request: build-results that reached the originator's ingest
    breq,             \* per request: the build-request manifest the builder holds
    transfers,        \* per request: FTP transfers the builder opened to Upload-Result-To
    cfg,              \* configuration snapshot and upload options the Package reads
    d_inp,            \* dispatch round on its own: per candidate, its status and FTP outcome
    d_res,            \* dispatch round on its own: what upload_buildrequest did
    inc_dir,          \* ftpd start: the .changes files found in /incoming, in directory order
    inc_queue,        \* ftpd start: what requeue_changes has put on the queue
    inc_done,         \* ftpd start: requeue_changes has run
    incoming_dir,     \* the names of the files present in /incoming
    received,         \* per FTP session: FtpDHandler._mbd_files_received
    sess_open,        \* the FTP sessions that are connected
    nsessions,        \* FTP sessions opened so far
    ftpd_up,          \* ftpd.run has done its startup and serves
    dist_in,          \* Distribution: the string given to the constructor
    dist_out,         \* Distribution: empty, or the one outcome of the constructor
    fn_in,            \* file name: package, version, arch and type given to gen_changes_file_name
    fn_name,          \* file name: empty, or the name gen_changes_file_name returned
    fn_type,          \* file name: empty, or the type Changes(name) has
    opt_in,           \* upload options: the lines of the Changes field of the upload
    opt_out,          \* upload options: empty, or the one outcome of Options(upload_changes)
    breq_saved,       \* upload: the build-request manifest exists in the spool directory
    sentinel,         \* upload: empty, or the content of the .upload file next to it
    up_transfers,     \* upload: the files stored on remotes so far, <<host, file>> in order
    up_pc,            \* upload: "idle", "try" (in the loop of upload_buildrequest),
                      \* "stor" (in the loop of upload), "write" (before the .upload file)
    up_host,          \* upload: the remote of the running upload call
    up_idx,           \* upload: index of the next file to store
    up_tried,         \* upload: the remotes upload_buildrequest has tried in this call
    up_last,          \* upload: outcome of the last upload call
    nprecheck,        \* upload: number of precheck runs for the package
    up_restarts,      \* upload: number of coordinator restarts
    bq_pending,       \* BlockQueue._pending
    bq_active,        \* BlockQueue._active.qsize()
    bq_queue,         \* BlockQueue: qsize() of the queue itself
    bq_building,      \* BlockQueue: requests taken by get whose task_done is still to come
    bq_pc,            \* BlockQueue: per putting thread, the position in put
    bq_tmp,           \* BlockQueue: per putting thread, the value of _pending it has read
    bq_nput,          \* BlockQueue: number of put calls started
    bq_load,          \* BlockQueue: empty, or the load last reported (in hundredths)
    kr_remotes,       \* Keyrings._remotes: the keyring object it refers to
    kr_uploaders,     \* Keyrings._uploaders: the keyring object of the one repository
    kr_needs_update,  \* Keyrings._needs_update
    kr_closed,        \* Keyrings: the keyring objects that were closed
    kr_next,          \* Keyrings: the next keyring object to create
    kr_pc,            \* Keyrings: per thread, the position in get_remotes / get_uploaders
    kr_kind,          \* Keyrings: per thread, "remotes" or "uploaders" as called
    kr_ret,           \* Keyrings: per thread, empty or what its last call returned:
                      \* the keyring object and whether it was closed by then
    kr_ncalls,        \* Keyrings: number of get_remotes / get_uploaders calls started
    kr_nupdates,      \* Keyrings: number of set_needs_update calls
    kr_nrebuilds,     \* Keyrings: number of times _update ran the rebuild
    kr_version,       \* Keyrings: per keyring object, the configuration it was built
                      \* from (the number of set_needs_update calls made until then)
    kr_start,         \* Keyrings: per thread, the configuration at the start of its call
    rt_maxsize,       \* runtime: Daemon.model.build_queue_size as configured
    rt_gen,           \* runtime: number of Daemon._update_from_model calls, which names the
                      \* incoming queue, build queue and builds map now in use
    rt_man,           \* runtime: per delivery (event id), the manifest delivered
    rt_incoming,      \* runtime: Daemon.incoming_queue (event ids, 0 is "SHUTDOWN")
    rt_pc,            \* runtime: position of daemon.run: "get", "put" (the sentinel for
                      \* the builder), "join", "returned"
    rt_helpers,       \* runtime: the "build queuer" threads inside build_queue.put
    rt_active,        \* runtime: per build queue instance, BlockQueue._active.qsize()
    rt_queue,         \* runtime: per build queue instance, the events queued
    rt_builder,       \* runtime: builder.run: "run", "done" (took the sentinel), "dead"
    rt_builds,        \* runtime: the build threads
    rt_map,           \* runtime: Daemon.builds (key to event id)
    rt_done,          \* runtime: the task_done calls of build threads: event, the queue
                      \* that admitted it, the queue whose slot was released
    rt_handled,       \* runtime: what packager.run was called for by daemon.run
    rt_stop,          \* runtime: Daemon.stop: "idle", "wait" (in thread.join), "stopped"
    sm_obj,           \* StatusModel: per object (remote), its status and last_checked
    sm_now,           \* StatusModel: the clock, in days
    sm_nacts,         \* StatusModel: number of admin actions / dispatch rounds made
    sm_last,          \* StatusModel: empty, or the record of the last action: for a
                      \* dispatch round its inputs, the remotes checked and its result
    LOCKS,            \* reprepro._LOCKS: basedir -> lock
    r_basedir,        \* per thread: self._basedir of the Reprepro object it uses
    r_lock,           \* per thread: self._lock of the Reprepro object it uses
    lock_owner,       \* per lock: the set of threads that hold it (empty: unlocked)
    r_pc,             \* per thread: position in the Reprepro method it runs: "new" (no
                      \* object yet), "idle", "with_call_locked" / "with_reindex" (at the
                      \* with statement of _call_locked / reindex), "call" (in self._call
                      \* of _call_locked), "clearvanished", "rmtree", "export" (reindex)
    daemon_lock,      \* Daemon.lock: the callers of start/stop that hold it
    daemon_thread,    \* Daemon.thread: empty (None) or the engine thread
    daemon_queue,     \* Daemon.incoming_queue as start/stop see it: items and sentinels
    unfinished_tasks, \* Queue.unfinished_tasks of Daemon.incoming_queue
    last_packages,    \* Daemon.last_packages, newest first
    pickled_data,     \* model.pickled_data: the persisted last_packages
    c_pc,             \* per caller of start/stop: its position
    e_pc,             \* per engine thread (daemon.run): "none", "get", "handle", "exited"
                      \* (run returned) or "dead" (an exception ended the thread)
    e_event,          \* per engine thread: the event it has dequeued
    nstart,           \* engine threads created so far
    nput,             \* items put on the queue so far
    closed,           \* every package closed so far, newest first
    done,             \* the events task_done was called for, in order
    cl_pc,            \* package_close: its position ("call": about to be called)
    notifications     \* package_close: summary notifications sent for the package

pkgvars == <<packages, status, requests, success, failed, finished, installs, trace>>
dispvars == <<ppc, todo, remote_http_url, dispatch>>
buildvars == <<build_queue, builds, bpc, bstatus, spool, bres, sbuild_runs, delivered,
               breq, transfers>>
roundvars == <<d_inp, d_res>>
mainvars == <<incoming_queue, uploaded, ninject, cfg, pkgvars, dispvars, buildvars, roundvars>>
cruftvars == <<incoming_dir, received, sess_open, nsessions, ftpd_up>>
bootvars == <<inc_dir, inc_queue, inc_done, cruftvars>>
reprvars == <<LOCKS, r_basedir, r_lock, lock_owner, r_pc>>
closevars == <<cl_pc, notifications>>
dmnvars_besides_last_packages ==
    <<daemon_lock, daemon_thread, daemon_queue, unfinished_tasks, pickled_data, c_pc, e_pc,
      e_event, nstart, nput, closed, done>>
dmnvars == <<dmnvars_besides_last_packages, last_packages, closevars>>
mainvars_besides_packages ==
    <<incoming_queue, uploaded, ninject, cfg, status, requests, success, failed, finished,
      installs, trace, dispvars, buildvars, roundvars>>
distvars == <<dist_in, dist_out>>
fnvars == <<fn_in, fn_name, fn_type>>
optvars == <<opt_in, opt_out>>
purevars == <<distvars, fnvars, optvars>>
upvars == <<breq_saved, sentinel, up_transfers, up_pc, up_host, up_idx, up_tried, up_last, nprecheck, up_restarts>>
bqvars == <<bq_pending, bq_active, bq_queue, bq_building, bq_pc, bq_tmp, bq_nput, bq_load>>
krvervars == <<kr_version, kr_start>>
krvars == <<kr_remotes, kr_uploaders, kr_needs_update, kr_closed, kr_next, kr_pc, kr_kind, kr_ret, kr_ncalls, kr_nupdates, kr_nrebuilds, krvervars>>
smvars == <<sm_obj, sm_now, sm_nacts, sm_last>>
rtvars == <<rt_maxsize, rt_gen, rt_man, rt_incoming, rt_pc, rt_helpers, rt_active, rt_queue, rt_builder,
            rt_builds, rt_map, rt_done, rt_handled, rt_stop>>
concvars == <<upvars, bqvars, krvars, smvars, rtvars>>
sidevars == <<bootvars, reprvars, dmnvars, purevars, concvars>>
besides_bootvars == <<mainvars, reprvars, dmnvars, purevars, concvars>>
besides_reprvars == <<mainvars, bootvars, dmnvars, purevars, concvars>>
besides_dmnvars == <<mainvars, bootvars, reprvars, purevars, concvars>>
besides_purevars == <<mainvars, bootvars, reprvars, dmnvars, concvars>>
besides_concvars == <<mainvars, bootvars, reprvars, dmnvars, purevars>>
besides_upvars == <<bqvars, krvars, smvars, rtvars, besides_concvars>>
besides_bqvars == <<upvars, krvars, smvars, rtvars, besides_concvars>>
besides_krvars == <<upvars, bqvars, smvars, rtvars, besides_concvars>>
besides_smvars == <<upvars, bqvars, krvars, rtvars, besides_concvars>>
besides_rtvars == <<upvars, bqvars, krvars, smvars, besides_concvars>>
vars == <<mainvars, sidevars>>

(***************************************************************************)
(* Manifests (the .changes family).                                        *)
(***************************************************************************)
Upload == [type |-> "upload", pid |-> PID, arch |-> "source", retval |-> 0,
           sbuild_status |-> NoValue, lintian |-> NoValue, signer |-> "uploader", built_by |-> NoValue]

Buildrequest(a) == [type |-> "breq", pid |-> PID, arch |-> a, retval |-> 0,
                    sbuild_status |-> NoValue, lintian |-> NoValue, signer |-> "self", built_by |-> NoValue]

Buildresult(a, rv, st, li, signer, by) ==
    [type |-> "bres", pid |-> PID, arch |-> a, retval |-> rv,
     sbuild_status |-> st, lintian |-> li, signer |-> signer, built_by |-> by]

(***************************************************************************)
(* Upload options (Changes.Options) and the lintian policy.                *)
(***************************************************************************)
LINTIAN_DISABLED == 0
LINTIAN_RUN_ONLY == 1
LINTIAN_FAIL_ON_ERROR == 2
LINTIAN_FAIL_ON_WARNING == 3
LintianModes == {LINTIAN_DISABLED, LINTIAN_RUN_ONLY, LINTIAN_FAIL_ON_ERROR, LINTIAN_FAIL_ON_WARNING}

\* key "k[a]" of the options dict; the plain key "k" is <<k, NoValue>>
m_key(key, alt) == <<key, alt>>

\* Options.get with the lookup order reversed: key, key[alt], default
Options_get_global_first(options, key, alt, default) ==
    IF m_key(key, NoValue) \in DOMAIN options
    THEN options[m_key(key, NoValue)]
    ELSE IF alt # NoValue /\ m_key(key, alt) \in DOMAIN options
         THEN options[m_key(key, alt)]
         ELSE default

\* Options.get(key, alt, default): first existing of key[alt], key, default
Options_get(options, key, alt, default) ==
    IF alt # NoValue /\ m_key(key, alt) \in DOMAIN options
    THEN options[m_key(key, alt)]
    ELSE IF m_key(key, NoValue) \in DOMAIN options
         THEN options[m_key(key, NoValue)]
         ELSE default

\* check_lintian(arch), local function of Package.add_buildresult
check_lintian(c, b, arch) ==
    \/ b.lintian = "pass"
    \/ c.experimental
    \/ c.lintian_mode < LINTIAN_FAIL_ON_ERROR
    \/ Options_get(c.options, "ignore-lintian", arch, FALSE)

\* the condition under which add_buildresult files b under success
files_success(c, b) ==
    b.retval = 0 /\ (b.sbuild_status = "skipped" \/ check_lintian(c, b, b.arch))

\* dict assignment d[k] = v
DictSet(d, k, v) == [x \in DOMAIN d \cup {k} |-> IF x = k THEN v ELSE d[x]]
EmptyDict == [x \in {} |-> NoValue]

\* a verification that accepts every signature
verify_remotes_accept_all(m) == TRUE

\* Keyring.verify of a manifest against the remotes keyring
verify_remotes(m) == m.signer \in RemotesKeyring

(***************************************************************************)
(* Dispatch: Changes.upload_buildrequest.                                  *)
(*                                                                         *)
(* The inputs of one dispatch round are, per candidate, the outcome of its *)
(* status refresh/check, its Status record and the outcome of an FTP       *)
(* upload to it.                                                           *)
(***************************************************************************)
CandInput(reach, running, chroot, load, accept) ==
    [reach |-> reach, running |-> running, chroot |-> chroot, load |-> load, accept |-> accept]
MinLoad == CHOOSE l \in Loads : \A k \in Loads : l <= k
CandInputs ==
    {CandInput(FALSE, FALSE, FALSE, MinLoad, FALSE),   \* status refresh or check fails
     CandInput(TRUE, FALSE, TRUE, MinLoad, FALSE),     \* not running
     CandInput(TRUE, TRUE, FALSE, MinLoad, FALSE)}     \* no chroot for (codename, arch)
    \cup {CandInput(TRUE, TRUE, TRUE, l, acc) : l \in Loads, acc \in BOOLEAN}

\* add_remote(remote, update): remotes[status.load] = status
add_remote(remotes, c, s) ==
    IF s.running /\ s.chroot THEN DictSet(remotes, s.load, c) ELSE remotes

\* check_remote(remote): a failing mbd_check skips the remote
check_remote(remotes, c, s) ==
    IF s.reach /\ s.running THEN add_remote(remotes, c, s) ELSE remotes

\* the loop over Remote.mbd_get_active_or_auto_reactivate()
RECURSIVE check_remotes(_, _, _, _)
check_remotes(remotes, order, i, inp) ==
    IF i > Len(order) THEN remotes
    ELSE check_remotes(check_remote(remotes, order[i], inp[order[i]]), order, i + 1, inp)

\* the keys in descending order
RECURSIVE sorted_descending(_)
sorted_descending(S) ==
    IF S = {} THEN <<>>
    ELSE LET m == CHOOSE x \in S : \A y \in S : x >= y
         IN <<m>> \o sorted_descending(S \ {m})

\* keys of sorted(remotes.items())
RECURSIVE sorted(_)
sorted(S) ==
    IF S = {} THEN <<>>
    ELSE LET m == CHOOSE x \in S : \A y \in S : x <= y
         IN <<m>> \o sorted(S \ {m})

\* the upload loop: first candidate that accepts ends it
RECURSIVE try_upload(_, _, _, _)
try_upload(order, remotes, inp, tried) ==
    IF order = <<>>
    THEN [ok |-> FALSE, attempts |-> tried, url |-> NoValue, remotes |-> remotes]
    ELSE LET c == remotes[Head(order)]
         IN IF inp[c].accept
            THEN [ok |-> TRUE, attempts |-> Append(tried, c), url |-> c, remotes |-> remotes]
            ELSE try_upload(Tail(order), remotes, inp, Append(tried, c))

\* order: own instance, then the active remotes
upload_buildrequest(order, inp) ==
    IF ~inp[order[1]].reach
    THEN \* own status refresh raises
         [ok |-> FALSE, attempts |-> <<>>, url |-> NoValue, remotes |-> EmptyDict]
    ELSE LET remotes == check_remotes(add_remote(EmptyDict, order[1], inp[order[1]]), order, 2, inp)
         IN IF DOMAIN remotes = {}
            THEN [ok |-> FALSE, attempts |-> <<>>, url |-> NoValue, remotes |-> remotes]
            ELSE try_upload(sorted(DOMAIN remotes), remotes, inp, <<>>)

(***************************************************************************)
(* Initial state: daemon started, nothing uploaded yet.                    *)
(***************************************************************************)
DefaultCfg == [experimental |-> FALSE, lintian_mode |-> LINTIAN_FAIL_ON_ERROR, options |-> EmptyDict]

InitPackager ==
    /\ packages = {}
    /\ status = "NONE"
    /\ requests = {}
    /\ success = EmptyDict
    /\ failed = EmptyDict
    /\ finished = FALSE
    /\ installs = 0
    /\ trace = <<>>
    /\ ppc = "idle"
    /\ todo = <<>>
    /\ remote_http_url = [a \in Archs |-> NoValue]
    /\ dispatch = [a \in Archs |-> "none"]

\* what the builder reads of a build-request: who signed it and where the
\* result is to go (Upload-Result-To)
Breq(signer, to) == [signer |-> signer, upload_result_to |-> to]
NoBreq == Breq(NoValue, NoValue)

InitBuilder ==
    /\ build_queue = [h \in BuilderSet |-> <<>>]
    /\ builds = {}
    /\ bpc = [a \in Archs |-> "none"]
    /\ bstatus = [a \in Archs |-> "NONE"]
    /\ spool = [a \in Archs |-> "none"]
    /\ bres = [a \in Archs |-> NoValue]
    /\ sbuild_runs = [a \in Archs |-> 0]
    /\ delivered = [a \in Archs |-> 0]
    /\ breq = [a \in Archs |-> NoBreq]
    /\ transfers = [a \in Archs |-> 0]

NoRound == [ok |-> FALSE, attempts |-> <<>>, url |-> NoValue, remotes |-> EmptyDict, done |-> FALSE]

InitRound ==
    /\ d_inp = [c \in Candidates |-> CandInput(FALSE, FALSE, FALSE, MinLoad, FALSE)]
    /\ d_res = NoRound

\* ftpd not started yet, /incoming empty
\* FTP sessions
Sessions == {"s1", "s2"}

InitCruft ==
    /\ incoming_dir = {}
    /\ received = [s \in Sessions |-> <<>>]
    /\ sess_open = {}
    /\ nsessions = 0
    /\ ftpd_up = FALSE

InitBoot ==
    /\ inc_dir = <<>>
    /\ inc_queue = <<>>
    /\ inc_done = FALSE
    /\ InitCruft

\* threads that use the archive, and the repositories' base directories
NThreads == 3
ReprThreads == 1..NThreads
Basedirs == {"repositories/a", "repositories/b"}

\* the threading.Lock() object thread t makes in Reprepro(basedir)
LockIds == ReprThreads \X Basedirs

\* import of reprepro: _LOCKS = {}; no Reprepro object exists
InitReprepro ==
    /\ LOCKS = [b \in Basedirs |-> NoValue]
    /\ r_basedir = [t \in ReprThreads |-> NoValue]
    /\ r_lock = [t \in ReprThreads |-> NoValue]
    /\ lock_owner = [l \in LockIds |-> {}]
    /\ r_pc = [t \in ReprThreads |-> "new"]

\* callers of Daemon.start / Daemon.stop, and the engine threads they may create
Callers == {"c1", "c2"}
MaxStarts == 2
Engines == 1..MaxStarts

\* an item of the ingest queue: what handling it does, and the sentinel
Event(id, kind) == [id |-> id, kind |-> kind]
SHUTDOWN == Event(0, "SHUTDOWN")

\* Daemon.__init__ on a fresh database
InitDaemon ==
    /\ daemon_lock = {}
    /\ daemon_thread = {}
    /\ daemon_queue = <<>>
    /\ unfinished_tasks = 0
    /\ last_packages = <<>>
    /\ pickled_data = <<>>
    /\ c_pc = [c \in Callers |-> "idle"]
    /\ e_pc = [e \in Engines |-> "none"]
    /\ e_event = [e \in Engines |-> SHUTDOWN]
    /\ nstart = 0
    /\ nput = 0
    /\ closed = <<>>
    /\ done = <<>>
    /\ cl_pc = "none"
    /\ notifications = 0

\* no Distribution object is being made
InitDist ==
    /\ dist_in = <<>>
    /\ dist_out = <<>>

\* no file name is being made
InitFileName ==
    /\ fn_in = <<>>
    /\ fn_name = <<>>
    /\ fn_type = <<>>

\* no upload options are being parsed
InitOptions ==
    /\ opt_in = <<>>
    /\ opt_out = <<>>

InitPure == InitDist /\ InitFileName /\ InitOptions

\* no build-request is in the spool and none is being uploaded
InitUpload ==
    /\ breq_saved = FALSE
    /\ sentinel = <<>>
    /\ up_transfers = <<>>
    /\ up_pc = "idle"
    /\ up_host = NoValue
    /\ up_idx = 1
    /\ up_tried = {}
    /\ up_last = "none"
    /\ nprecheck = 0
    /\ up_restarts = 0

BqThreads == {"q1", "q2", "q3"}

\* BlockQueue.__init__: nothing pending, both queues empty
InitBlockQueue ==
    /\ bq_pending = 0
    /\ bq_active = 0
    /\ bq_queue = 0
    /\ bq_building = 0
    /\ bq_pc = [t \in BqThreads |-> "idle"]
    /\ bq_tmp = [t \in BqThreads |-> 0]
    /\ bq_nput = 0
    /\ bq_load = <<>>

KrThreads == {"packager", "build1", "build2"}

\* Keyrings.__init__ at Daemon.start: keyring objects 1 and 2, both complete
InitKeyrings ==
    /\ kr_remotes = 1
    /\ kr_uploaders = 2
    /\ kr_needs_update = FALSE
    /\ kr_closed = {}
    /\ kr_next = 3
    /\ kr_pc = [t \in KrThreads |-> "idle"]
    /\ kr_kind = [t \in KrThreads |-> "remotes"]
    /\ kr_ret = [t \in KrThreads |-> <<>>]
    /\ kr_ncalls = 0
    /\ kr_nupdates = 0
    /\ kr_nrebuilds = 0
    /\ kr_version = <<0, 0>>
    /\ kr_start = [t \in KrThreads |-> 0]

\* StatusModel: the main statuses and the markers of last_checked; a real
\* check stamp is later than every marker
STATUS_REMOVED == 0
STATUS_PREPARED == 1
STATUS_ACTIVE == 2
CHECK_NONE == 1
CHECK_CHANGED == 2
CHECK_FAILED == 3
CHECK_REACTIVATE == 4
CHECK_MAX == CHECK_REACTIVATE

\* django.utils.timezone.now() as a value of last_checked
stamp(now) == CHECK_MAX + now

StatusObj(st, last) == [status |-> st, last_checked |-> last]

\* the remotes configured: all active, checked on day 1
InitStatusModel ==
    /\ sm_obj = [r \in Candidates \ {"self"} |-> StatusObj(STATUS_ACTIVE, stamp(1))]
    /\ sm_now = 1
    /\ sm_nacts = 0
    /\ sm_last = <<>>

\* Daemon.build_queue = BlockQueue(maxsize=self.model.build_queue_size)
build_queue_size == 2

\* number of Daemon._update_from_model calls modelled: start, stop, start
MaxGen == 3

\* Daemon.start on a fresh daemon: empty queues and maps, daemon.run and
\* builder.run started
InitRunning ==
    /\ rt_gen = 1
    /\ rt_man = <<>>
    /\ rt_incoming = <<>>
    /\ rt_pc = "get"
    /\ rt_helpers = {}
    /\ rt_active = [g \in 1..MaxGen + 1 |-> 0]
    /\ rt_queue = [g \in 1..MaxGen + 1 |-> <<>>]
    /\ rt_builder = "run"
    /\ rt_builds = {}
    /\ rt_map = EmptyDict
    /\ rt_done = {}
    /\ rt_handled = <<>>
    /\ rt_stop = "idle"

InitRuntime == rt_maxsize = build_queue_size /\ InitRunning

InitConc == InitUpload /\ InitBlockQueue /\ InitKeyrings /\ InitStatusModel /\ InitRuntime

InitSide == InitBoot /\ InitReprepro /\ InitDaemon /\ InitPure /\ InitConc

Init ==
    /\ incoming_queue = <<>>
    /\ uploaded = FALSE
    /\ ninject = 0
    /\ cfg = DefaultCfg
    /\ InitPackager
    /\ InitBuilder
    /\ InitRound
    /\ InitSide

(***************************************************************************)
(* Environment: the FTP server feeds the ingest queue.                     *)
(***************************************************************************)
\* the developer uploads the source package
UserUpload ==
    /\ ~uploaded
    /\ uploaded' = TRUE
    /\ incoming_queue' = Append(incoming_queue, Upload)
    /\ UNCHANGED <<ninject, cfg, sidevars, roundvars, pkgvars, dispvars, buildvars>>

\* build-results a build can report (retval, Sbuild-Status, Sbuild-Lintian)
ToolResults ==
    {<<0, "successful", "pass">>, <<1, "failed", NoValue>>}

\* build-results that anybody may drop into /incoming: repeated results of a
\* remote, results for an architecture that was not requested, forged results
FtpResults ==
    {Buildresult(ArchOrder[1], 0, "successful", "pass", "r2", "ftp"),
     Buildresult(ArchOrder[1], 1, "failed", NoValue, "r2", "ftp"),
     Buildresult(OtherArch, 0, "successful", "pass", "r2", "ftp"),
     Buildresult(ArchOrder[1], 0, "successful", "pass", "attacker", "ftp")}

\* FtpDHandler.on_disconnect: a received .changes is queued
FtpReceive ==
    /\ ninject < MaxInject
    /\ \E m \in FtpResults :
          incoming_queue' = Append(incoming_queue, m)
    /\ ninject' = ninject + 1
    /\ UNCHANGED <<uploaded, cfg, sidevars, roundvars, pkgvars, dispvars, buildvars>>

(***************************************************************************)
(* Packager: packager.run, called by the single ingest consumer            *)
(* (daemon.run) for every upload and build-result it dequeues.             *)
(***************************************************************************)
\* Status.set_status
set_status(st) ==
    /\ status' = st
    /\ trace' = Append(trace, st)

\* a package_close that leaves the package in the map
package_close_never == UNCHANGED packages

\* package_close: the finally clause removes the package from daemon.packages
package_close == packages' = packages \ {PID}

\* run(), user upload: create the Package and start precheck.  The checks of
\* precheck up to gen_buildrequests either pass or raise.
RunUpload ==
    /\ ppc = "idle"
    /\ incoming_queue # <<>>
    /\ Head(incoming_queue).type = "upload"
    /\ incoming_queue' = Tail(incoming_queue)
    /\ IF Head(incoming_queue).pid \in packages
       THEN \* "Uploaded package already in packages list": raised to daemon.run
            UNCHANGED <<pkgvars, dispvars>>
       ELSE \E valid \in BOOLEAN :
              /\ success' = EmptyDict
              /\ failed' = EmptyDict
              /\ finished' = FALSE
              /\ installs' = 0
              /\ IF valid
                 THEN /\ packages' = packages \cup {PID}
                      /\ status' = "CHECKING"
                      /\ trace' = <<"CHECKING">>
                      /\ requests' = Archs
                      /\ ppc' = "precheck"
                      /\ todo' = ArchOrder
                 ELSE /\ packages' = packages \ {PID}
                      /\ status' = "REJECTED"
                      /\ trace' = <<"CHECKING", "REJECTED">>
                      /\ requests' = {}
                      /\ UNCHANGED <<ppc, todo>>
              /\ UNCHANGED <<remote_http_url, dispatch>>
    /\ UNCHANGED <<uploaded, ninject, cfg, sidevars, roundvars, buildvars>>

\* a failure build-result that loses the return value
failed_buildresult_retval_lost(a, retval, st, by) == Buildresult(a, 0, st, NoValue, "self", by)

\* Changes.upload_failed_buildresult(gnupg, endpoint, retval, status, e)
failed_buildresult(a, retval, st, by) == Buildresult(a, retval, st, NoValue, "self", by)

\* precheck, one turn of the loop "for breq in requests": upload the
\* build-request; on failure upload a failure build-result to ourselves.
\* After the last request run() sets BUILDING.
PrecheckUpload ==
    /\ ppc = "precheck"
    /\ todo # <<>>
    /\ LET a == Head(todo)
       IN \E inp \in [BuilderSet -> CandInputs], sent \in BOOLEAN :
            LET r == upload_buildrequest(Builders, inp)
                rejected == ~r.ok /\ ~sent
                last == Tail(todo) = <<>>
            IN /\ remote_http_url' = [remote_http_url EXCEPT ![a] = r.url]
               /\ dispatch' = [dispatch EXCEPT ![a] =
                                   IF r.ok THEN "sent" ELSE IF sent THEN "failed" ELSE "lost"]
               /\ r.ok => sent
               /\ incoming_queue' =
                     IF r.ok
                     THEN IF r.url = Builders[1]
                          THEN Append(incoming_queue, Buildrequest(a))
                          ELSE incoming_queue
                     ELSE IF sent
                          THEN Append(incoming_queue, failed_buildresult(a, 100, "upload-failed", "self"))
                          ELSE incoming_queue
               /\ bpc' = IF r.ok /\ r.url # Builders[1] THEN [bpc EXCEPT ![a] = "ingest"] ELSE bpc
               /\ delivered' = IF ~r.ok /\ sent THEN [delivered EXCEPT ![a] = @ + 1] ELSE delivered
               /\ IF rejected
                  THEN \* the failure result could not be uploaded: precheck raises
                       /\ set_status("REJECTED")
                       /\ package_close
                       /\ ppc' = "idle"
                       /\ todo' = <<>>
                  ELSE /\ todo' = Tail(todo)
                       /\ ppc' = IF last THEN "idle" ELSE "precheck"
                       /\ IF last THEN set_status("BUILDING") ELSE UNCHANGED <<status, trace>>
                       /\ UNCHANGED packages
    /\ UNCHANGED <<uploaded, ninject, cfg, sidevars, roundvars, requests, success, failed, finished, installs>>
    /\ UNCHANGED <<build_queue, builds, bstatus, spool, bres, sbuild_runs, breq, transfers>>

\* Package.add_buildresult after the verification: file the result
add_buildresult(b) ==
    /\ IF files_success(cfg, b)
       THEN /\ success' = DictSet(success, b.arch, b)
            /\ failed' = failed
       ELSE /\ failed' = DictSet(failed, b.arch, b)
            /\ success' = success
    /\ finished' = (finished \/ Cardinality(requests) - Cardinality(DOMAIN success') - Cardinality(DOMAIN failed') <= 0)

\* Package.install: repository.mbd_package_install either returns or raises
mbd_package_install == BOOLEAN

\* no build-result is ever taken for a stray one
stray_buildresult_never(b) == FALSE

\* run(): "pid not in daemon.packages" (stray build result)
stray_buildresult(b) == b.pid \notin packages

\* run(), build-result
RunBuildresult ==
    /\ ppc = "idle"
    /\ incoming_queue # <<>>
    /\ Head(incoming_queue).type = "bres"
    /\ incoming_queue' = Tail(incoming_queue)
    /\ LET b == Head(incoming_queue)
       IN IF stray_buildresult(b)
          THEN \* stray build result: raised to daemon.run, which removes the manifest
               UNCHANGED pkgvars
          ELSE IF ~verify_remotes(b)
               THEN \* verify raises inside the try: except BaseException
                    /\ set_status("FAILED")
                    /\ package_close
                    /\ UNCHANGED <<requests, success, failed, finished, installs>>
               ELSE /\ add_buildresult(b)
                    /\ IF finished'
                       THEN /\ installs' = installs + 1
                            /\ \E installed \in mbd_package_install :
                                  set_status(IF installed THEN "INSTALLED" ELSE "FAILED")
                            /\ package_close
                       ELSE UNCHANGED <<installs, status, trace, packages>>
                    /\ UNCHANGED requests
    /\ UNCHANGED <<uploaded, ninject, cfg, sidevars, roundvars, dispvars, buildvars>>

\* daemon.run, build-request: a helper thread puts it on the build queue
QueueBuildrequest ==
    /\ ppc = "idle"
    /\ incoming_queue # <<>>
    /\ Head(incoming_queue).type = "breq"
    /\ incoming_queue' = Tail(incoming_queue)
    /\ build_queue' = [build_queue EXCEPT ![Builders[1]] = Append(@, Head(incoming_queue).arch)]
    /\ bpc' = [bpc EXCEPT ![Head(incoming_queue).arch] = "queued"]
    /\ breq' = [breq EXCEPT ![Head(incoming_queue).arch] =
                   Breq(Head(incoming_queue).signer, Builders[1])]
    /\ UNCHANGED <<uploaded, ninject, cfg, sidevars, roundvars, pkgvars, dispvars>>
    /\ UNCHANGED <<builds, bstatus, spool, bres, sbuild_runs, delivered, transfers>>

\* the same on a remote builder: its ingest consumer queues the request
RemoteQueueBuildrequest(a) ==
    /\ bpc[a] = "ingest"
    /\ build_queue' = [build_queue EXCEPT ![remote_http_url[a]] = Append(@, a)]
    /\ bpc' = [bpc EXCEPT ![a] = "queued"]
    /\ breq' = [breq EXCEPT ![a] = Breq(Buildrequest(a).signer, Builders[1])]
    /\ UNCHANGED <<incoming_queue, uploaded, ninject, cfg, sidevars, roundvars, pkgvars, dispvars>>
    /\ UNCHANGED <<builds, bstatus, spool, bres, sbuild_runs, delivered, transfers>>

(***************************************************************************)
(* Builder: builder.run takes build-requests from the build queue and      *)
(* starts one thread builder.build per request.                            *)
(***************************************************************************)
\* builder.run: build_queue.get() and run_as_thread(build, ...)
BuilderRun(h) ==
    /\ build_queue[h] # <<>>
    /\ bpc[Head(build_queue[h])] = "queued"
    /\ build_queue' = [build_queue EXCEPT ![h] = Tail(@)]
    /\ bpc' = [bpc EXCEPT ![Head(build_queue[h])] = "init"]
    /\ UNCHANGED <<incoming_queue, uploaded, ninject, cfg, sidevars, roundvars, pkgvars, dispvars>>
    /\ UNCHANGED <<builds, bstatus, spool, bres, sbuild_runs, delivered, breq, transfers>>

\* Build.__init__: the status follows the stamps found in the spool dir
Build_init_status(sp) ==
    IF sp = "built" THEN "UPLOADING"
    ELSE IF sp = "started" THEN "BUILDING"
    ELSE "CHECKING"

\* raw values of the Build stati (builder.py:20-24)
BuildRaw(st) ==
    CASE st = "FAILED" -> 0 - 1
      [] st = "CHECKING" -> 0
      [] st = "BUILDING" -> 1
      [] st = "UPLOADING" -> 2
      [] st = "UPLOADED" -> 10

\* build(), up to the start of Build.build: create the Build, enter it into
\* daemon.builds, verify the request against the remotes keyring
BuildInit(a) ==
    /\ bpc[a] = "init"
    /\ builds' = builds \cup {a}
    /\ LET st == Build_init_status(spool[a])
       IN IF ~verify_remotes(breq[a])
          THEN /\ bstatus' = [bstatus EXCEPT ![a] = st]
               /\ bpc' = [bpc EXCEPT ![a] = "except"]
          ELSE IF BuildRaw(st) < BuildRaw("BUILDING")
               THEN /\ bstatus' = [bstatus EXCEPT ![a] = "BUILDING"]
                    /\ bpc' = [bpc EXCEPT ![a] = "build"]
               ELSE /\ bstatus' = [bstatus EXCEPT ![a] = st]
                    /\ bpc' = [bpc EXCEPT ![a] = "upload"]
    /\ UNCHANGED <<incoming_queue, uploaded, ninject, cfg, sidevars, roundvars, pkgvars, dispvars>>
    /\ UNCHANGED <<build_queue, spool, bres, sbuild_runs, delivered, breq, transfers>>

\* Build.build: run the build tool, save the signed build-result; or an
\* internal error before the build tool is started
BuildBuild(a) ==
    /\ bpc[a] = "build"
    /\ \/ \E t \in ToolResults :
            /\ sbuild_runs' = [sbuild_runs EXCEPT ![a] = @ + 1]
            /\ bres' = [bres EXCEPT ![a] =
                          Buildresult(a, t[1], t[2], t[3], remote_http_url[a], remote_http_url[a])]
            /\ spool' = [spool EXCEPT ![a] = "built"]
            /\ bstatus' = [bstatus EXCEPT ![a] = "UPLOADING"]
            /\ bpc' = [bpc EXCEPT ![a] = "upload"]
       \/ /\ spool' = [spool EXCEPT ![a] = "started"]
          /\ bpc' = [bpc EXCEPT ![a] = "except"]
          /\ UNCHANGED <<sbuild_runs, bres, bstatus>>
    /\ UNCHANGED <<incoming_queue, uploaded, ninject, cfg, sidevars, roundvars, pkgvars, dispvars>>
    /\ UNCHANGED <<build_queue, builds, delivered, breq, transfers>>

\* Changes.upload to an endpoint: the manifest arrives in that host's
\* /incoming; the originator's is incoming_queue
ftp_put(to, m) == IF to = Builders[1] THEN Append(incoming_queue, m) ELSE incoming_queue

\* build(), "Try upload": Build.upload to Upload-Result-To; without a saved
\* build-result file the upload raises
BuildUpload(a) ==
    /\ bpc[a] = "upload"
    /\ \E ok \in (IF spool[a] = "built" THEN BOOLEAN ELSE {FALSE}) :
         IF ok
         THEN /\ incoming_queue' = ftp_put(breq[a].upload_result_to, bres[a])
              /\ delivered' = [delivered EXCEPT ![a] = @ + 1]
              /\ bstatus' = [bstatus EXCEPT ![a] = "UPLOADED"]
         ELSE /\ bstatus' = [bstatus EXCEPT ![a] = "UPLOADING"]
              /\ UNCHANGED <<incoming_queue, delivered>>
    /\ transfers' = [transfers EXCEPT ![a] = @ + 1]
    /\ bpc' = [bpc EXCEPT ![a] = "finally"]
    /\ UNCHANGED <<uploaded, ninject, cfg, sidevars, roundvars, pkgvars, dispvars>>
    /\ UNCHANGED <<build_queue, builds, spool, bres, sbuild_runs, breq>>

\* build(), except clause: FAILED, try to upload a failure build-result
BuildExcept(a) ==
    /\ bpc[a] = "except"
    /\ bstatus' = [bstatus EXCEPT ![a] = "FAILED"]
    /\ \E ok \in BOOLEAN :
         IF ok
         THEN /\ incoming_queue' = ftp_put(breq[a].upload_result_to,
                     Buildresult(a, 101, "builder-failed", NoValue, remote_http_url[a], remote_http_url[a]))
              /\ delivered' = [delivered EXCEPT ![a] = @ + 1]
         ELSE UNCHANGED <<incoming_queue, delivered>>
    /\ transfers' = [transfers EXCEPT ![a] = @ + 1]
    /\ bpc' = [bpc EXCEPT ![a] = "finally"]
    /\ UNCHANGED <<uploaded, ninject, cfg, sidevars, roundvars, pkgvars, dispvars>>
    /\ UNCHANGED <<build_queue, builds, spool, bres, sbuild_runs, breq>>

\* build(), finally clause: build_close (Build.clean purges the spool dir and
\* the build-request, the build leaves daemon.builds) and task_done
BuildFinally(a) ==
    /\ bpc[a] = "finally"
    /\ spool' = [spool EXCEPT ![a] = "none"]
    /\ builds' = builds \ {a}
    /\ bpc' = [bpc EXCEPT ![a] = "done"]
    /\ UNCHANGED <<incoming_queue, uploaded, ninject, cfg, sidevars, roundvars, pkgvars, dispvars>>
    /\ UNCHANGED <<build_queue, bstatus, bres, sbuild_runs, delivered, breq, transfers>>

(***************************************************************************)
(* The pipeline.                                                           *)
(***************************************************************************)
Next ==
    \/ UserUpload
    \/ FtpReceive
    \/ RunUpload
    \/ PrecheckUpload
    \/ RunBuildresult
    \/ QueueBuildrequest
    \/ \E a \in Archs : RemoteQueueBuildrequest(a)
    \/ \E h \in BuilderSet : BuilderRun(h)
    \/ \E a \in Archs : BuildInit(a)
    \/ \E a \in Archs : BuildBuild(a)
    \/ \E a \in Archs : BuildUpload(a)
    \/ \E a \in Archs : BuildExcept(a)
    \/ \E a \in Archs : BuildFinally(a)

Spec == Init /\ [][Next]_vars

(***************************************************************************)
(* One dispatch round on its own: upload_buildrequest for every status and *)
(* FTP outcome of the candidates.                                          *)
(***************************************************************************)
InitDispatch ==
    /\ incoming_queue = <<>>
    /\ uploaded = FALSE
    /\ ninject = 0
    /\ cfg = DefaultCfg
    /\ InitPackager
    /\ InitBuilder
    /\ d_inp \in [Candidates -> CandInputs]
    /\ d_res = NoRound
    /\ InitSide

DispatchRound ==
    /\ ~d_res.done
    /\ LET r == upload_buildrequest(CandOrder, d_inp)
       IN d_res' = [ok |-> r.ok, attempts |-> r.attempts, url |-> r.url,
                    remotes |-> r.remotes, done |-> TRUE]
    /\ UNCHANGED <<incoming_queue, uploaded, ninject, cfg, sidevars, d_inp, pkgvars, dispvars, buildvars>>

SpecDispatch == InitDispatch /\ [][DispatchRound]_vars

(***************************************************************************)
(* The collect step on its own: a package in BUILDING receives one         *)
(* verified build-result, for every configuration and every upload option. *)
(***************************************************************************)
OptionKeys == {m_key("ignore-lintian", x) : x \in {NoValue} \cup Archs}
OptionSets == UNION {[K -> BOOLEAN] : K \in SUBSET OptionKeys}
Cfgs == [experimental : BOOLEAN, lintian_mode : LintianModes, options : OptionSets]

VerifiedResults ==
    {Buildresult(a, rv, st, li, "r1", "ftp") :
        a \in AllArchs, rv \in {0, 1}, st \in {"successful", "skipped", "failed"},
        li \in {"pass", "fail", NoValue}}

InitCollect ==
    /\ incoming_queue \in {<<b>> : b \in VerifiedResults}
    /\ uploaded = TRUE
    /\ ninject = 0
    /\ cfg \in Cfgs
    /\ packages = {PID}
    /\ status = "BUILDING"
    /\ requests = Archs
    /\ success = EmptyDict
    /\ failed = EmptyDict
    /\ finished = FALSE
    /\ installs = 0
    /\ trace = <<"CHECKING", "BUILDING">>
    /\ ppc = "idle"
    /\ todo = <<>>
    /\ remote_http_url = [a \in Archs |-> Builders[2]]
    /\ dispatch = [a \in Archs |-> "sent"]
    /\ build_queue = [h \in BuilderSet |-> <<>>]
    /\ builds = {}
    /\ bpc = [a \in Archs |-> "ingest"]
    /\ bstatus = [a \in Archs |-> "NONE"]
    /\ spool = [a \in Archs |-> "none"]
    /\ bres = [a \in Archs |-> NoValue]
    /\ sbuild_runs = [a \in Archs |-> 0]
    /\ delivered = [a \in Archs |-> 0]
    /\ breq = [a \in Archs |-> NoBreq]
    /\ transfers = [a \in Archs |-> 0]
    /\ InitRound
    /\ InitSide

SpecCollect == InitCollect /\ [][RunBuildresult]_vars

(***************************************************************************)
(* A builder on its own: build-requests as they arrive in its /incoming    *)
(* (anybody may upload there), with whatever an earlier, interrupted build *)
(* of the same request left in the spool directory.                        *)
(***************************************************************************)
\* a genuine request of the originator, and forged ones naming an endpoint
BreqInputs ==
    {Breq("self", "self"), Breq("attacker", "self"), Breq("attacker", "victim")}

\* a build-result file an earlier run saved in the spool directory
SavedResult(a) == Buildresult(a, 0, "successful", "pass", Builders[1], Builders[1])

SpoolInputs == {"none", "started", "built"}

InitBuilding ==
    /\ incoming_queue = <<>>
    /\ uploaded = TRUE
    /\ ninject = 0
    /\ cfg = DefaultCfg
    /\ InitPackager
    /\ InitRound
    /\ InitSide
    /\ build_queue = [h \in BuilderSet |-> IF h = Builders[1] THEN ArchOrder ELSE <<>>]
    /\ builds = {}
    /\ bpc = [a \in Archs |-> "queued"]
    /\ bstatus = [a \in Archs |-> "NONE"]
    /\ spool \in [Archs -> SpoolInputs]
    /\ bres = [a \in Archs |-> IF spool[a] = "built" THEN SavedResult(a) ELSE NoValue]
    /\ sbuild_runs = [a \in Archs |-> 0]
    /\ delivered = [a \in Archs |-> 0]
    /\ breq \in [Archs -> BreqInputs]
    /\ transfers = [a \in Archs |-> 0]

NextBuilding ==
    \/ BuilderRun(Builders[1])
    \/ \E a \in Archs : BuildInit(a)
    \/ \E a \in Archs : BuildBuild(a)
    \/ \E a \in Archs : BuildUpload(a)
    \/ \E a \in Archs : BuildExcept(a)
    \/ \E a \in Archs : BuildFinally(a)

SpecBuilding == InitBuilding /\ [][NextBuilding]_vars

(***************************************************************************)
(* Start of the FTP server: Incoming.requeue_changes re-queues the         *)
(* manifests left in /incoming.                                            *)
(***************************************************************************)
\* number of .changes files left in /incoming
MaxSpool == 3

\* a .changes file: its type as Changes.__init__ tells it from the file name
\* (BUILDREQUEST_RE, BUILDRESULT_RE), and the source package it is named after
ChangesFile(kind, source, arch) == [kind |-> kind, source |-> source, arch |-> arch]

\* source package names that contain "mini-buildd-build"
BuildNamedSources == {"mini-buildd-buildtools"}

IncomingFiles ==
    {ChangesFile("upload", "foo", "source"),
     ChangesFile("upload", "mini-buildd-buildtools", "source"),
     ChangesFile("breq", "foo", "amd64"),
     ChangesFile("bres", "foo", "amd64"),
     ChangesFile("bres", "foo", "i386")}

\* fnmatch.fnmatch(c, "*mini-buildd-build*"): the file names of build-requests
\* and build-results contain "_mini-buildd-buildrequest_"/"_mini-buildd-buildresult_"
fnmatch_build(c) == c.kind \in {"breq", "bres"} \/ c.source \in BuildNamedSources

\* the sort key of requeue_changes
requeue_key(c) == IF fnmatch_build(c) THEN 1 ELSE 0

\* sorted(changes, key=...): Python's sort is stable
RECURSIVE sorted_by_key(_, _)
sorted_by_key(changes, k) ==
    IF k > 1 THEN <<>>
    ELSE SelectSeq(changes, LAMBDA c : requeue_key(c) = k) \o sorted_by_key(changes, k + 1)

\* directory listings: every order of up to MaxSpool different files
Listings ==
    {l \in UNION {[1..n -> IncomingFiles] : n \in 0..MaxSpool} :
        \A i, j \in DOMAIN l : i # j => l[i] # l[j]}

InitRequeue ==
    /\ incoming_queue = <<>>
    /\ uploaded = FALSE
    /\ ninject = 0
    /\ cfg = DefaultCfg
    /\ InitPackager
    /\ InitBuilder
    /\ InitRound
    /\ inc_dir \in Listings
    /\ inc_queue = <<>>
    /\ inc_done = FALSE
    /\ InitCruft
    /\ InitReprepro
    /\ InitDaemon
    /\ InitConc
    /\ InitPure

\* Incoming.requeue_changes(queue)
requeue_changes ==
    /\ ~inc_done
    /\ inc_queue' = inc_queue \o sorted_by_key(inc_dir, 0)
    /\ inc_done' = TRUE
    /\ UNCHANGED <<inc_dir, cruftvars, besides_bootvars>>

SpecRequeue == InitRequeue /\ [][requeue_changes]_vars

(***************************************************************************)
(* Archive adapter (reprepro.py): threads that make Reprepro objects and   *)
(* call their methods.                                                     *)
(***************************************************************************)
InitIdle ==
    /\ incoming_queue = <<>>
    /\ uploaded = FALSE
    /\ ninject = 0
    /\ cfg = DefaultCfg
    /\ InitPackager
    /\ InitBuilder
    /\ InitRound

\* the methods that run one reprepro command under the lock, and reindex
CallMethods == {"check", "list", "show", "migrate", "remove", "install", "install_dsc"}
Methods == CallMethods \cup {"reindex"}

\* a dict assignment in place of setdefault: the new value always replaces
setdefault_overwrite(d, k, v) == [d EXCEPT ![k] = v]

\* dict.setdefault(k, v): the dict afterwards (the call returns its d[k])
setdefault(d, k, v) == IF d[k] = NoValue THEN [d EXCEPT ![k] = v] ELSE d

\* Reprepro.__init__(basedir)
Reprepro_init(t, b) ==
    /\ r_pc[t] \in {"new", "idle"}
    /\ LOCKS' = setdefault(LOCKS, b, <<t, b>>)
    /\ r_lock' = [r_lock EXCEPT ![t] = LOCKS'[b]]
    /\ r_basedir' = [r_basedir EXCEPT ![t] = b]
    /\ r_pc' = [r_pc EXCEPT ![t] = "idle"]
    /\ UNCHANGED <<lock_owner, besides_reprvars>>

\* a thread calls method m of its Reprepro object and arrives at "with self._lock"
method_call(t, m) ==
    /\ r_pc[t] = "idle"
    /\ r_pc' = [r_pc EXCEPT ![t] = IF m \in CallMethods THEN "with_call_locked"
                                    ELSE "with_reindex"]
    /\ UNCHANGED <<LOCKS, r_basedir, r_lock, lock_owner, besides_reprvars>>

\* threading.Lock.acquire / release
acquire(t) ==
    /\ lock_owner[r_lock[t]] = {}
    /\ lock_owner' = [lock_owner EXCEPT ![r_lock[t]] = {t}]

release(t) == lock_owner' = [lock_owner EXCEPT ![r_lock[t]] = {}]

\* method return (or exception leaving the method)
method_return(t) == r_pc' = [r_pc EXCEPT ![t] = "idle"]

\* _call_locked: "with self._lock" entered, self._call starts
call_locked(t) ==
    /\ r_pc[t] = "with_call_locked"
    /\ acquire(t)
    /\ r_pc' = [r_pc EXCEPT ![t] = "call"]
    /\ UNCHANGED <<LOCKS, r_basedir, r_lock, besides_reprvars>>

\* _call_locked: self._call returns or raises, the with block is left
call_locked_exit(t) ==
    /\ r_pc[t] = "call"
    /\ release(t)
    /\ method_return(t)
    /\ UNCHANGED <<LOCKS, r_basedir, r_lock, besides_reprvars>>

\* reindex: "with self._lock" entered
reindex(t) ==
    /\ r_pc[t] = "with_reindex"
    /\ acquire(t)
    /\ r_pc' = [r_pc EXCEPT ![t] = "clearvanished"]
    /\ UNCHANGED <<LOCKS, r_basedir, r_lock, besides_reprvars>>

\* reindex: self._call(["--delete", "clearvanished"]); a failing call raises
reindex_clearvanished(t) ==
    /\ r_pc[t] = "clearvanished"
    /\ \E ok \in BOOLEAN :
          IF ok
          THEN /\ r_pc' = [r_pc EXCEPT ![t] = "rmtree"]
               /\ UNCHANGED lock_owner
          ELSE /\ release(t)
               /\ method_return(t)
    /\ UNCHANGED <<LOCKS, r_basedir, r_lock, besides_reprvars>>

\* reindex: shutil.rmtree(dists, ignore_errors=True)
reindex_rmtree(t) ==
    /\ r_pc[t] = "rmtree"
    /\ r_pc' = [r_pc EXCEPT ![t] = "export"]
    /\ UNCHANGED <<LOCKS, r_basedir, r_lock, lock_owner, besides_reprvars>>

\* reindex: self._call(["export"]) returns or raises, the with block is left
reindex_export(t) ==
    /\ r_pc[t] = "export"
    /\ release(t)
    /\ method_return(t)
    /\ UNCHANGED <<LOCKS, r_basedir, r_lock, besides_reprvars>>

InitArchive == InitIdle /\ InitSide

NextArchive ==
    \E t \in ReprThreads :
       \/ \E b \in Basedirs : Reprepro_init(t, b)
       \/ \E m \in Methods : method_call(t, m)
       \/ call_locked(t)
       \/ call_locked_exit(t)
       \/ reindex(t)
       \/ reindex_clearvanished(t)
       \/ reindex_rmtree(t)
       \/ reindex_export(t)

SpecArchive == InitArchive /\ [][NextArchive]_vars

(***************************************************************************)
(* Daemon.start / Daemon.stop and the main loop of daemon.run.             *)
(***************************************************************************)
MaxItems == 3
show_last_packages == 2

\* what handling an item does: nothing that matters here ("plain"), raise an
\* exception ("raise"), or close a package ("close")
EventKinds == {"plain", "raise", "close"}

\* collections.deque(maxlen=show_last_packages)
deque_appendleft(d, x) ==
    IF Len(d) >= show_last_packages
    THEN <<x>> \o SubSeq(d, 1, show_last_packages - 1)
    ELSE <<x>> \o d

deque_append(d, x) ==
    IF Len(d) >= show_last_packages
    THEN SubSeq(d, 2, Len(d)) \o <<x>>
    ELSE Append(d, x)

\* _update_from_model: "for p in last_packages: self.last_packages.append(p)"
RECURSIVE deque_extend(_, _)
deque_extend(d, ps) ==
    IF ps = <<>> THEN d ELSE deque_extend(deque_append(d, Head(ps)), Tail(ps))

\* a lock anybody can take while it is held
lock_acquire_unguarded(c) == daemon_lock' = daemon_lock \cup {c}

\* "with self.lock": enter
lock_acquire(c) ==
    /\ daemon_lock = {}
    /\ daemon_lock' = {c}

\* "with self.lock": exit
lock_release(c) == daemon_lock' = daemon_lock \ {c}

\* an except clause that catches nothing
except_catches_nothing(e) == FALSE

\* run: "except BaseException" catches whatever handling the event raised
except_catches(e) == TRUE

\* Daemon._update_from_model: new queues, history reloaded from pickled_data
update_from_model ==
    /\ daemon_queue' = <<>>
    /\ unfinished_tasks' = 0
    /\ last_packages' = deque_extend(<<>>, pickled_data)

\* Daemon.update_to_model and model.save
update_to_model == pickled_data' = last_packages

\* the engine thread has ended (Thread.join returns)
Ended(e) == e_pc[e] \in {"exited", "dead"}
Alive(e) == e_pc[e] \in {"get", "handle"}

\* Daemon.start: "with self.lock"
start_enter(c) ==
    /\ c_pc[c] = "idle"
    /\ nstart < MaxStarts \/ daemon_thread # {}
    /\ lock_acquire(c)
    /\ c_pc' = [c_pc EXCEPT ![c] = "start"]
    /\ UNCHANGED <<daemon_thread, daemon_queue, unfinished_tasks, last_packages, pickled_data,
                   e_pc, e_event, nstart, nput, closed, done, closevars, besides_dmnvars>>

\* Daemon.start: "if not self.thread", else "already running"
start_check(c) ==
    /\ c_pc[c] = "start"
    /\ IF daemon_thread = {}
       THEN /\ c_pc' = [c_pc EXCEPT ![c] = "start_update"]
            /\ UNCHANGED daemon_lock
       ELSE /\ c_pc' = [c_pc EXCEPT ![c] = "idle"]
            /\ lock_release(c)
    /\ UNCHANGED <<daemon_thread, daemon_queue, unfinished_tasks, last_packages, pickled_data,
                   e_pc, e_event, nstart, nput, closed, done, closevars, besides_dmnvars>>

\* Daemon.start: _update_from_model, check, and run_as_thread(run) if active
start_run(c) ==
    /\ c_pc[c] = "start_update"
    /\ nstart < MaxStarts
    /\ update_from_model
    /\ \E mbd_is_active \in BOOLEAN :
          IF mbd_is_active
          THEN /\ daemon_thread' = {nstart + 1}
               /\ e_pc' = [e_pc EXCEPT ![nstart + 1] = "get"]
               /\ nstart' = nstart + 1
          ELSE UNCHANGED <<daemon_thread, e_pc, nstart>>
    /\ lock_release(c)
    /\ c_pc' = [c_pc EXCEPT ![c] = "idle"]
    /\ UNCHANGED <<pickled_data, e_event, nput, closed, done, closevars, besides_dmnvars>>

\* Daemon.stop: "with self.lock"
stop_enter(c) ==
    /\ c_pc[c] = "idle"
    /\ lock_acquire(c)
    /\ c_pc' = [c_pc EXCEPT ![c] = "stop"]
    /\ UNCHANGED <<daemon_thread, daemon_queue, unfinished_tasks, last_packages, pickled_data,
                   e_pc, e_event, nstart, nput, closed, done, closevars, besides_dmnvars>>

\* Daemon.stop: "if self.thread": update_to_model, save, put("SHUTDOWN");
\* else "already stopped"
stop_save(c) ==
    /\ c_pc[c] = "stop"
    /\ IF daemon_thread # {}
       THEN /\ update_to_model
            /\ daemon_queue' = Append(daemon_queue, SHUTDOWN)
            /\ unfinished_tasks' = unfinished_tasks + 1
            /\ c_pc' = [c_pc EXCEPT ![c] = "stop_join"]
            /\ UNCHANGED daemon_lock
       ELSE /\ c_pc' = [c_pc EXCEPT ![c] = "idle"]
            /\ lock_release(c)
            /\ UNCHANGED <<pickled_data, daemon_queue, unfinished_tasks>>
    /\ UNCHANGED <<daemon_thread, last_packages, e_pc, e_event, nstart, nput, closed, done,
                   closevars, besides_dmnvars>>

\* Daemon.stop: thread.join() returns, thread = None, _update_from_model
stop_join(c) ==
    /\ c_pc[c] = "stop_join"
    /\ \A e \in daemon_thread : Ended(e)
    /\ daemon_thread' = {}
    /\ update_from_model
    /\ lock_release(c)
    /\ c_pc' = [c_pc EXCEPT ![c] = "idle"]
    /\ UNCHANGED <<pickled_data, e_pc, e_event, nstart, nput, closed, done,
                   closevars, besides_dmnvars>>

\* a manifest arrives while the engine runs (the FTP server lives in run)
incoming_put(k) ==
    /\ \E e \in Engines : Alive(e)
    /\ nput < MaxItems
    /\ daemon_queue' = Append(daemon_queue, Event(nput + 1, k))
    /\ unfinished_tasks' = unfinished_tasks + 1
    /\ nput' = nput + 1
    /\ UNCHANGED <<daemon_lock, daemon_thread, last_packages, pickled_data, c_pc, e_pc,
                   e_event, nstart, closed, done, closevars, besides_dmnvars>>

\* run: event = incoming_queue.get(); if event == "SHUTDOWN": break, and the
\* rest of run after the loop
run_get(e) ==
    /\ e_pc[e] = "get"
    /\ daemon_queue # <<>>
    /\ daemon_queue' = Tail(daemon_queue)
    /\ IF Head(daemon_queue) = SHUTDOWN
       THEN /\ e_pc' = [e_pc EXCEPT ![e] = "exited"]
            /\ UNCHANGED e_event
       ELSE /\ e_pc' = [e_pc EXCEPT ![e] = "handle"]
            /\ e_event' = [e_event EXCEPT ![e] = Head(daemon_queue)]
    /\ UNCHANGED <<daemon_lock, daemon_thread, unfinished_tasks, last_packages, pickled_data,
                   c_pc, nstart, nput, closed, done, closevars, besides_dmnvars>>

\* run: the try block for one event (packager.run closes a package for a
\* "close" event), the except clause, and task_done in the finally clause
run_handle(e) ==
    /\ e_pc[e] = "handle"
    /\ IF e_event[e].kind = "close"
       THEN /\ last_packages' = deque_appendleft(last_packages, e_event[e].id)
            /\ closed' = <<e_event[e].id>> \o closed
       ELSE UNCHANGED <<last_packages, closed>>
    /\ unfinished_tasks' = unfinished_tasks - 1
    /\ done' = Append(done, e_event[e])
    /\ e_pc' = [e_pc EXCEPT ![e] =
                   IF e_event[e].kind = "raise" /\ ~except_catches(e_event[e])
                   THEN "dead" ELSE "get"]
    /\ UNCHANGED <<daemon_lock, daemon_thread, daemon_queue, pickled_data, c_pc, e_event,
                   nstart, nput, closevars, besides_dmnvars>>

InitStartStop == InitIdle /\ InitSide

NextStartStop ==
    \/ \E c \in Callers :
          \/ start_enter(c)
          \/ start_check(c)
          \/ start_run(c)
          \/ stop_enter(c)
          \/ stop_save(c)
          \/ stop_join(c)
    \/ \E k \in EventKinds : incoming_put(k)
    \/ \E e \in Engines : run_get(e)
    \/ \E e \in Engines : run_handle(e)

SpecStartStop == InitStartStop /\ [][NextStartStop]_vars

(***************************************************************************)
(* packager.run ends a package: set_status to a terminal status, then      *)
(* package_close.                                                          *)
(***************************************************************************)
\* a build-result on file for architecture a
FiledResult(a, ok) ==
    IF ok THEN Buildresult(a, 0, "successful", "pass", "r1", "ftp")
    ELSE Buildresult(a, 1, "failed", NoValue, "r1", "ftp")

\* an open package: in precheck (CHECKING, some build-requests generated) or
\* collecting (BUILDING, all requested, some results on file)
InitClose ==
    /\ incoming_queue = <<>>
    /\ uploaded = TRUE
    /\ ninject = 0
    /\ cfg = DefaultCfg
    /\ packages = {PID}
    /\ \E R \in SUBSET Archs, S \in SUBSET Archs, F \in SUBSET Archs :
          /\ S \cap F = {}
          /\ \/ status = "CHECKING" /\ S = {} /\ F = {} /\ trace = <<"CHECKING">>
             \/ status = "BUILDING" /\ R = Archs /\ trace = <<"CHECKING", "BUILDING">>
          /\ requests = R
          /\ success = [a \in S |-> FiledResult(a, TRUE)]
          /\ failed = [a \in F |-> FiledResult(a, FALSE)]
          /\ finished = (status = "BUILDING" /\ S \cup F = Archs)
    /\ installs = 0
    /\ ppc = "idle"
    /\ todo = <<>>
    /\ remote_http_url = [a \in Archs |-> NoValue]
    /\ dispatch = [a \in Archs |-> "none"]
    /\ InitBuilder
    /\ InitRound
    /\ InitSide

close_frame ==
    <<incoming_queue, uploaded, ninject, cfg, requests, success, failed, finished, installs,
      dispvars, buildvars, roundvars, bootvars, reprvars, dmnvars_besides_last_packages,
      purevars, concvars>>

\* run: package.set_status(REJECTED / FAILED / INSTALLED), then package_close
\* is called
run_set_terminal(st) ==
    /\ cl_pc = "none"
    /\ \/ status = "CHECKING" /\ st = "REJECTED"
       \/ status = "BUILDING" /\ st = "FAILED"
       \/ status = "BUILDING" /\ finished /\ st = "INSTALLED"
    /\ set_status(st)
    /\ cl_pc' = "call"
    /\ UNCHANGED <<packages, last_packages, notifications, close_frame>>

\* package_close: package.move_to_pkglog() returns or raises
close_move_to_pkglog ==
    /\ cl_pc = "call"
    /\ \E moved \in BOOLEAN : cl_pc' = IF moved THEN "notify" ELSE "except"
    /\ UNCHANGED <<packages, status, trace, last_packages, notifications, close_frame>>

\* package_close: package.notify() sends the summary, or raises
close_notify ==
    /\ cl_pc = "notify"
    /\ \E sent \in BOOLEAN :
           IF sent
           THEN /\ notifications' = notifications + 1
                /\ cl_pc' = "appendleft"
           ELSE /\ UNCHANGED notifications
                /\ cl_pc' = "except"
    /\ UNCHANGED <<packages, status, trace, last_packages, close_frame>>

\* package_close: daemon.last_packages.appendleft(LastPackage(package))
close_appendleft ==
    /\ cl_pc = "appendleft"
    /\ last_packages' = deque_appendleft(last_packages, PID)
    /\ cl_pc' = "finally"
    /\ UNCHANGED <<packages, status, trace, notifications, close_frame>>

\* package_close: except BaseException: log_exception
close_except ==
    /\ cl_pc = "except"
    /\ cl_pc' = "finally"
    /\ UNCHANGED <<packages, status, trace, last_packages, notifications, close_frame>>

\* package_close: finally: del daemon.packages[package.pid]
close_finally ==
    /\ cl_pc = "finally"
    /\ package_close
    /\ cl_pc' = "closed"
    /\ UNCHANGED <<status, trace, last_packages, notifications, close_frame>>

\* run(), user upload, while no other call of run is in progress: "if pid in
\* daemon.packages: raise" (the uploads of a new package are in RunUpload)
run_upload_again ==
    /\ cl_pc = "none"
    /\ status = "BUILDING"
    /\ PID \in packages
    /\ ninject < MaxInject
    /\ ninject' = ninject + 1
    /\ UNCHANGED <<packages, status, trace, last_packages, closevars>>
    /\ UNCHANGED <<incoming_queue, uploaded, cfg, requests, success, failed, finished, installs,
                   dispvars, buildvars, roundvars, bootvars, reprvars,
                   dmnvars_besides_last_packages, purevars, concvars>>

NextClose ==
    \/ run_upload_again
    \/ \E st \in {"REJECTED", "FAILED", "INSTALLED"} : run_set_terminal(st)
    \/ close_move_to_pkglog
    \/ close_notify
    \/ close_appendleft
    \/ close_except
    \/ close_finally

SpecClose == InitClose /\ [][NextClose]_vars

(***************************************************************************)
(* Cruft removal in /incoming: ftpd.run at startup, FtpDHandler per session. *)
(***************************************************************************)
MaxSessions == 3

\* the files that may be in /incoming: one upload and a stray file
SpoolNames == {"foo_1.0_source.changes", "foo_1.0.dsc", "foo_1.0.tar.gz", "README"}

\* Incoming.is_changes: fnmatch(file_name, "*.changes")
is_changes(f) == f = "foo_1.0_source.changes"

\* the names in the Files field of a .changes file
changes_Files(c) == {"foo_1.0.dsc", "foo_1.0.tar.gz"}

\* the elements of a sequence
Range(q) == {q[i] : i \in DOMAIN q}

\* remove_cruft_files: names of the Files of the .changes files in the list,
\* and the .changes files themselves (a .changes that cannot be opened is
\* skipped)
valid_files(files, dir) ==
    UNION {changes_Files(c) \cup {c} : c \in {f \in Range(files) : is_changes(f) /\ f \in dir}}

\* remove_cruft_files(files): /incoming afterwards
remove_cruft_files(files, dir) ==
    dir \ {f \in Range(files) : f \notin valid_files(files, dir)}

\* os.listdir(INCOMING_DIR), in some order
RECURSIVE listdir(_)
listdir(dir) ==
    IF dir = {} THEN <<>>
    ELSE LET f == CHOOSE x \in dir : TRUE IN <<f>> \o listdir(dir \ {f})

\* what a restart finds in /incoming
InitCruftSpool ==
    /\ InitIdle
    /\ inc_dir = <<>>
    /\ inc_queue = <<>>
    /\ inc_done = FALSE
    /\ incoming_dir \in SUBSET SpoolNames
    /\ received = [s \in Sessions |-> <<>>]
    /\ sess_open = {}
    /\ nsessions = 0
    /\ ftpd_up = FALSE
    /\ InitReprepro
    /\ InitDaemon
    /\ InitConc
    /\ InitPure

\* ftpd.run: Incoming.remove_cruft(); Incoming.requeue_changes(queue)
ftpd_run ==
    /\ ~ftpd_up
    /\ incoming_dir' = remove_cruft_files(listdir(incoming_dir), incoming_dir)
    /\ inc_queue' = inc_queue \o SelectSeq(listdir(incoming_dir'), is_changes)
    /\ ftpd_up' = TRUE
    /\ UNCHANGED <<inc_dir, inc_done, received, sess_open, nsessions, besides_bootvars>>

\* a client connects: a new FtpDHandler
ftp_connect(s) ==
    /\ ftpd_up
    /\ s \notin sess_open
    /\ nsessions < MaxSessions
    /\ sess_open' = sess_open \cup {s}
    /\ received' = [received EXCEPT ![s] = <<>>]
    /\ nsessions' = nsessions + 1
    /\ UNCHANGED <<inc_dir, inc_queue, inc_done, incoming_dir, ftpd_up, besides_bootvars>>

\* on_file_received / on_incomplete_file_received: the file is in /incoming
\* (files there are read-only, so no existing one is written again)
on_file_received(s, f) ==
    /\ s \in sess_open
    /\ f \notin incoming_dir
    /\ incoming_dir' = incoming_dir \cup {f}
    /\ received' = [received EXCEPT ![s] = Append(@, f)]
    /\ UNCHANGED <<inc_dir, inc_queue, inc_done, sess_open, nsessions, ftpd_up,
                   besides_bootvars>>

\* on_disconnect: queue the received .changes, remove_cruft_files(received)
on_disconnect(s) ==
    /\ s \in sess_open
    /\ inc_queue' = inc_queue \o SelectSeq(received[s], is_changes)
    /\ incoming_dir' = remove_cruft_files(received[s], incoming_dir)
    /\ sess_open' = sess_open \ {s}
    /\ UNCHANGED <<inc_dir, inc_done, received, nsessions, ftpd_up, besides_bootvars>>

NextCruft ==
    \/ ftpd_run
    \/ \E s \in Sessions :
          \/ ftp_connect(s)
          \/ \E f \in SpoolNames : on_file_received(s, f)
          \/ on_disconnect(s)

SpecCruft == InitCruftSpool /\ [][NextCruft]_vars

(***************************************************************************)
(* misc.Distribution: strings are sequences of characters.                 *)
(***************************************************************************)
Letters == {"a", "b", "c", "d", "e", "i", "k", "l", "o", "r", "s", "t"}
Digits == {"0", "5", "7"}
\* the characters the pattern \w matches, and \d
IsWord(c) == c \in Letters \cup Digits \cup {"_"}
IsDigit(c) == c \in Digits

\* int() of one digit
DigitValue(c) == CASE c = "0" -> 0 [] c = "5" -> 5 [] c = "7" -> 7

\* int(s) of a string of digits
RECURSIVE int(_)
int(s) == IF s = <<>> THEN 0 ELSE 10 * int(SubSeq(s, 1, Len(s) - 1)) + DigitValue(s[Len(s)])

\* str.split(sep) for a separator of one character
RECURSIVE split(_, _)
split(s, sep) ==
    IF \E i \in DOMAIN s : s[i] = sep
    THEN LET i == CHOOSE i \in DOMAIN s : s[i] = sep /\ \A j \in 1..(i - 1) : s[j] # sep
         IN <<SubSeq(s, 1, i - 1)>> \o split(SubSeq(s, i + 1, Len(s)), sep)
    ELSE <<s>>

\* sep.join(parts)
RECURSIVE join(_, _)
join(sep, parts) ==
    IF parts = <<>> THEN <<>>
    ELSE IF Len(parts) = 1 THEN parts[1]
    ELSE parts[1] \o <<sep>> \o join(sep, Tail(parts))

\* re.sub(r"\D", "", s)
sub_nondigits(s) == SelectSeq(s, IsDigit)

\* s[i..j] is a non-empty run of \w
WordRun(s, i, j) == i <= j /\ \A k \in i..j : IsWord(s[k])

ROLLBACK == <<"-", "r", "o", "l", "l", "b", "a", "c", "k">>

\* s[i..e] matches -rollback\d+
RollbackRun(s, i, e) ==
    /\ e >= i + Len(ROLLBACK)
    /\ SubSeq(s, i, i + Len(ROLLBACK) - 1) = ROLLBACK
    /\ \A k \in (i + Len(ROLLBACK))..e : IsDigit(s[k])

\* where $ matches: at the end of the string, and before a newline that is
\* the last character
DollarPositions(s) ==
    {Len(s)} \cup (IF s # <<>> /\ s[Len(s)] = "\n" THEN {Len(s) - 1} ELSE {})

\* Distribution._REGEX.match(dist): ^\w+-\w+-\w+?(-rollback\d+)?$
REGEX_match(s) ==
    \E e \in DollarPositions(s), i, j \in DOMAIN s :
       /\ i < j
       /\ s[i] = "-"
       /\ s[j] = "-"
       /\ WordRun(s, 1, i - 1)
       /\ WordRun(s, i + 1, j - 1)
       /\ \E k \in (j + 1)..e :
             /\ WordRun(s, j + 1, k)
             /\ k = e \/ RollbackRun(s, k + 1, e)

\* Distribution(dist) and what its methods and properties return
Distribution(dist) ==
    IF ~REGEX_match(dist)
    THEN [raised |-> "Malformed distribution"]
    ELSE LET dsplit == split(dist, "-")
         IN [raised |-> NoValue,
             get |-> join("-", dsplit),
             codename |-> dsplit[1],
             repository |-> dsplit[2],
             suite |-> dsplit[3],
             is_rollback |-> (Len(dsplit) = 4),
             rollback_no |-> IF Len(dsplit) = 4 THEN <<int(sub_nondigits(dsplit[4]))>>
                             ELSE <<>>]

\* the strings tried: three parts, two separators, a rollback part, a tail
DistParts == {<<>>, <<"s", "i", "d">>, <<"t", "e", "s", "t", "_", "5">>, <<"s", " ", "d">>}
DistSeps == {<<"-">>, <<>>, <<"-", "-">>}
DistRollbacks ==
    {<<>>, <<"-">>, ROLLBACK, ROLLBACK \o <<"5">>, ROLLBACK \o <<"0", "7">>,
     ROLLBACK \o <<"5", "s">>, <<"-", "r", "o", "l", "b", "a", "c", "k", "0">>}
DistTails == {<<>>, <<"\n">>, <<"\n", "\n">>, <<" ">>}
DistInputs ==
    {p1 \o s1 \o p2 \o s2 \o p3 \o r \o t :
        p1 \in DistParts, s1 \in DistSeps, p2 \in DistParts, s2 \in DistSeps,
        p3 \in DistParts, r \in DistRollbacks, t \in DistTails}

InitDistribution ==
    /\ InitIdle
    /\ InitBoot
    /\ InitReprepro
    /\ InitDaemon
    /\ InitConc
    /\ dist_in \in DistInputs
    /\ dist_out = <<>>
    /\ InitFileName
    /\ InitOptions

Distribution_init ==
    /\ dist_out = <<>>
    /\ dist_out' = <<Distribution(dist_in)>>
    /\ UNCHANGED <<dist_in, fnvars, optvars, besides_purevars>>

SpecDistribution == InitDistribution /\ [][Distribution_init]_vars

(***************************************************************************)
(* Changes file names: gen_changes_file_name and the type Changes.__init__ *)
(* reads from the name.                                                    *)
(***************************************************************************)
TYPE_DEFAULT == 0
TYPE_BREQ == 1
TYPE_BRES == 2

\* Changes.TYPE2FILENAME_ID
TYPE2FILENAME_ID(t) ==
    CASE t = TYPE_DEFAULT -> <<>>
      [] t = TYPE_BREQ -> <<"_", "m", "i", "n", "i", "-", "b", "u", "i", "l", "d", "d", "-", "b", "u", "i", "l", "d", "r", "e", "q", "u", "e", "s", "t">>
      [] t = TYPE_BRES -> <<"_", "m", "i", "n", "i", "-", "b", "u", "i", "l", "d", "d", "-", "b", "u", "i", "l", "d", "r", "e", "s", "u", "l", "t">>

\* misc.strip_epoch: version.rpartition(":")[2], what follows the last colon
strip_epoch(version) ==
    IF \E i \in DOMAIN version : version[i] = ":"
    THEN LET i == CHOOSE i \in DOMAIN version :
                     version[i] = ":" /\ \A j \in (i + 1)..Len(version) : version[j] # ":"
         IN SubSeq(version, i + 1, Len(version))
    ELSE version

\* Changes.gen_changes_file_name: "{p}_{v}{x}_{a}.changes"
gen_changes_file_name(package, version, arch, mbd_type) ==
    package \o <<"_">> \o strip_epoch(version) \o TYPE2FILENAME_ID(mbd_type)
       \o <<"_">> \o arch \o <<".", "c", "h", "a", "n", "g", "e", "s">>

\* BUILDREQUEST_RE / BUILDRESULT_RE: "^.+" + id + "_[^_]+.changes$" matches
\* the name; the dot before "changes" stands for any character
TYPE_RE_match(name, id) ==
    LET lit == id \o <<"_">>
        tail == <<"c", "h", "a", "n", "g", "e", "s">>
    IN \E e \in DollarPositions(name), i \in 1..Len(name), k \in 1..Len(name) :
          /\ \A j \in 1..i : name[j] # "\n"
          /\ i + Len(lit) < k
          /\ SubSeq(name, i + 1, i + Len(lit)) = lit
          /\ \A j \in (i + Len(lit) + 1)..k : name[j] # "_"
          /\ k + 1 + Len(tail) = e
          /\ name[k + 1] # "\n"
          /\ SubSeq(name, k + 2, e) = tail

\* Changes.__init__: the type of the object
Changes_type(file_name) ==
    IF TYPE_RE_match(file_name, TYPE2FILENAME_ID(TYPE_BREQ)) THEN TYPE_BREQ
    ELSE IF TYPE_RE_match(file_name, TYPE2FILENAME_ID(TYPE_BRES)) THEN TYPE_BRES
    ELSE TYPE_DEFAULT

\* package names, versions and architectures tried
FnPackages == {<<"m", "y", "p", "k", "g">>, <<"l", "i", "b", "+", "a", ".", "b">>, <<"m", "i", "n", "i", "-", "b", "u", "i", "l", "d", "d">>}
FnVersions == {<<"1", ".", "2", ".", "3", "-", "1">>, <<"7", ":", "1", ".", "2", ".", "3", "-", "1">>, <<"0", ":", "2", "~", "r", "c", "1">>, <<"1", ":", "2", ":", "3", "-", "1">>, <<"2">>}
FnArchs == {<<"m", "i", "p", "s">>, <<"a", "m", "d", "6", "4">>, <<"a", "l", "l">>}
FnInputs ==
    [package : FnPackages, version : FnVersions, arch : FnArchs,
     mbd_type : {TYPE_DEFAULT, TYPE_BREQ, TYPE_BRES}]

InitChangesName ==
    /\ InitIdle
    /\ InitBoot
    /\ InitReprepro
    /\ InitDaemon
    /\ InitConc
    /\ InitDist
    /\ fn_in \in {<<i>> : i \in FnInputs}
    /\ fn_name = <<>>
    /\ fn_type = <<>>
    /\ InitOptions

\* Changes.gen_changes_file_name(package, version, arch, mbd_type)
gen_file_name ==
    /\ fn_name = <<>>
    /\ fn_name' = <<gen_changes_file_name(fn_in[1].package, fn_in[1].version, fn_in[1].arch,
                                          fn_in[1].mbd_type)>>
    /\ UNCHANGED <<fn_in, fn_type, distvars, optvars, besides_purevars>>

\* Changes(file_name)
Changes_init ==
    /\ fn_name # <<>>
    /\ fn_type = <<>>
    /\ fn_type' = <<Changes_type(fn_name[1])>>
    /\ UNCHANGED <<fn_in, fn_name, distvars, optvars, besides_purevars>>

SpecChangesName == InitChangesName /\ [][gen_file_name \/ Changes_init]_vars

(***************************************************************************)
(* Changes.Options: upload options in the changelog entry of an upload.    *)
(***************************************************************************)
MaxOptLines == 2

\* a line of the Changes field: the header of a changelog block, an item with
\* a MINI_BUILDD_OPTION, an item with an old-style magic, or other text
Line(kind, key, raw) == [kind |-> kind, key |-> key, raw |-> raw]
HeaderLine == Line("header", m_key(NoValue, NoValue), <<>>)
TextLine == Line("text", m_key(NoValue, NoValue), <<>>)

\* Options._OPTIONS: the option names and their value types
OPTIONS ==
    [x \in {"ignore-lintian", "run-lintian", "internal-apt-priority", "auto-ports"} |->
        CASE x = "internal-apt-priority" -> "Int"
          [] x = "auto-ports" -> "CSV"
          [] OTHER -> "Bool"]

\* str.lower for the characters used
lower(s) ==
    [i \in DOMAIN s |->
        CASE s[i] = "T" -> "t" [] s[i] = "F" -> "f" [] OTHER -> s[i]]

\* re.sub(r"\s+", "", raw_value)
sub_whitespace(s) == SelectSeq(s, LAMBDA c : c \notin {" ", "\n"})

Bool_VALID == {<<"t", "r", "u", "e">>, <<"1">>, <<"f", "a", "l", "s", "e">>, <<"0">>}
Bool_TRUE == {<<"t", "r", "u", "e">>, <<"1">>}

\* Bool / Int / CSV (raw_value): the converted value, or none if it raises
convert(type, value) ==
    CASE type = "Bool" ->
            IF lower(value) \in Bool_VALID THEN <<lower(value) \in Bool_TRUE>> ELSE <<>>
      [] type = "Int" ->
            IF value # <<>> /\ \A i \in DOMAIN value : IsDigit(value[i])
            THEN <<int(value)>> ELSE <<>>
      [] type = "CSV" -> <<split(value, ",")>>

\* the whole Changes field instead of its top block
get_whole_changes(lines) == lines

\* Options._get_top_changes: the lines up to the second block header
RECURSIVE get_top_changes_from(_, _)
get_top_changes_from(lines, header_found) ==
    IF lines = <<>> THEN <<>>
    ELSE IF Head(lines).kind = "header"
         THEN IF header_found THEN <<>>
              ELSE <<Head(lines)>> \o get_top_changes_from(Tail(lines), TRUE)
         ELSE <<Head(lines)>> \o get_top_changes_from(Tail(lines), header_found)

get_top_changes(lines) == get_top_changes_from(lines, FALSE)

\* Options._set(key, raw_value) on the outcome so far
Options_set(o, key, raw_value) ==
    LET base_key == key[1]
        value == sub_whitespace(raw_value)
    IN IF o.raised # NoValue THEN o
       ELSE IF base_key \notin DOMAIN OPTIONS
            THEN [o EXCEPT !.raised = "Unknown upload option"]
       ELSE IF key \in DOMAIN o.options
            THEN [o EXCEPT !.raised = "Duplicate upload option"]
       ELSE IF convert(OPTIONS[base_key], value) = <<>>
            THEN [o EXCEPT !.raised = "Invalid upload option value"]
       ELSE [o EXCEPT !.options = DictSet(o.options, key, convert(OPTIONS[base_key], value)[1])]

\* Options.__init__: for m in matches: self._set(m[0], m[1])
RECURSIVE Options_set_matches(_, _)
Options_set_matches(o, matches) ==
    IF matches = <<>> THEN o
    ELSE Options_set_matches(Options_set(o, Head(matches).key, Head(matches).raw), Tail(matches))

\* Options._compat_parse_magic: the first AUTO_BACKPORTS, then BACKPORT_MODE
compat_parse_magic(o, top) ==
    LET auto == SelectSeq(top, LAMBDA l : l.kind = "magic_auto_backports")
        mode == SelectSeq(top, LAMBDA l : l.kind = "magic_backport_mode")
        o1 == IF auto # <<>> THEN Options_set(o, m_key("auto-ports", NoValue), auto[1].raw) ELSE o
    IN IF mode # <<>> THEN Options_set(o1, m_key("ignore-lintian", NoValue), <<"t", "r", "u", "e">>) ELSE o1

\* Options(upload_changes)
Options(lines) ==
    LET top == get_top_changes(lines)
        matches == SelectSeq(top, LAMBDA l : l.kind = "option")
    IN compat_parse_magic(
          Options_set_matches([raised |-> NoValue, options |-> EmptyDict], matches), top)

\* the item lines tried
OptionLines ==
    {Line("option", m_key("ignore-lintian", NoValue), <<"t", "r", "u", "e">>),
     Line("option", m_key("ignore-lintian", NoValue), <<"m", "a", "y", "b", "e">>),
     Line("option", m_key("ignore-lintian", "i386"), <<"F", "a", "l", "s", "e">>),
     Line("option", m_key("ignore-lintian", "i386"), <<" ", "1", " ">>),
     Line("option", m_key("internal-apt-priority", NoValue), <<"5", "7">>),
     Line("option", m_key("internal-apt-priority", NoValue), <<"h", "i", "g", "h">>),
     Line("option", m_key("auto-ports", NoValue), <<"a", ",", "b">>),
     Line("option", m_key("no-such-option", NoValue), <<"t", "r", "u", "e">>),
     Line("magic_backport_mode", m_key(NoValue, NoValue), <<>>),
     TextLine}

\* a top block of up to MaxOptLines items, and possibly an older block below
OptInputs ==
    {<<HeaderLine>> \o t \o b :
        t \in UNION {[1..n -> OptionLines] : n \in 0..MaxOptLines},
        b \in {<<>>} \cup {<<HeaderLine, l>> : l \in OptionLines}}

InitUploadOptions ==
    /\ InitIdle
    /\ InitBoot
    /\ InitReprepro
    /\ InitDaemon
    /\ InitConc
    /\ InitDist
    /\ InitFileName
    /\ opt_in \in OptInputs
    /\ opt_out = <<>>

\* Changes.options: self.Options(self)
Options_init ==
    /\ opt_out = <<>>
    /\ opt_out' = <<Options(opt_in)>>
    /\ UNCHANGED <<opt_in, distvars, fnvars, besides_purevars>>

SpecUploadOptions == InitUploadOptions /\ [][Options_init]_vars

(***************************************************************************)
(* Changes.upload and the .upload file of a build-request.                 *)
(***************************************************************************)
MaxPrechecks == 3
MaxRestarts == 2

\* the remotes upload_buildrequest may try
UploadHosts == {"h1", "h2"}

\* self.get_files() + [{"name": self._file_name}]: the listed files, then the manifest
UploadFiles == <<"tar", "changes">>

\* an .upload file that is never seen
exists_never(upload) == FALSE

\* os.path.exists(upload)
exists(upload) == upload # <<>>

\* Package.precheck: gen_buildrequests saves the build-request if it is new
\* and re-uses it otherwise; then upload_buildrequest starts
gen_buildrequests ==
    /\ up_pc = "idle"
    /\ nprecheck < MaxPrechecks
    /\ nprecheck' = nprecheck + 1
    /\ breq_saved' = TRUE
    /\ up_tried' = {}
    /\ up_pc' = "try"
    /\ UNCHANGED <<sentinel, up_transfers, up_host, up_idx, up_last, up_restarts, besides_upvars>>

\* upload_buildrequest: self.upload(remote) finds the .upload file
upload_already(r) ==
    /\ up_pc = "try"
    /\ r \notin up_tried
    /\ exists(sentinel)
    /\ up_last' = "skipped"
    /\ up_pc' = "idle"
    /\ UNCHANGED <<breq_saved, sentinel, up_transfers, up_host, up_idx, up_tried, nprecheck, up_restarts, besides_upvars>>

\* upload: no .upload file; connect, login, cwd succeed or raise
upload_connect(r) ==
    /\ up_pc = "try"
    /\ r \notin up_tried
    /\ ~exists(sentinel)
    /\ \E ok \in BOOLEAN :
          IF ok
          THEN /\ up_pc' = "stor"
               /\ up_host' = r
               /\ up_idx' = 1
               /\ UNCHANGED <<up_tried, up_last>>
          ELSE /\ up_tried' = up_tried \cup {r}
               /\ up_last' = "raised"
               /\ UNCHANGED <<up_pc, up_host, up_idx>>
    /\ UNCHANGED <<breq_saved, sentinel, up_transfers, nprecheck, up_restarts, besides_upvars>>

\* upload: ftp.storbinary of the next file stores it or raises
upload_storbinary ==
    /\ up_pc = "stor"
    /\ \E ok \in BOOLEAN :
          IF ok
          THEN /\ up_transfers' = Append(up_transfers, <<up_host, UploadFiles[up_idx]>>)
               /\ up_idx' = up_idx + 1
               /\ up_pc' = IF up_idx = Len(UploadFiles) THEN "write" ELSE "stor"
               /\ UNCHANGED <<up_tried, up_last>>
          ELSE /\ up_tried' = up_tried \cup {up_host}
               /\ up_last' = "raised"
               /\ up_pc' = "try"
               /\ UNCHANGED <<up_transfers, up_idx>>
    /\ UNCHANGED <<breq_saved, sentinel, up_host, nprecheck, up_restarts, besides_upvars>>

\* upload: the .upload file is written with the destination
upload_write ==
    /\ up_pc = "write"
    /\ sentinel' = <<up_host>>
    /\ up_last' = "uploaded"
    /\ up_pc' = "idle"
    /\ UNCHANGED <<breq_saved, up_transfers, up_host, up_idx, up_tried, nprecheck, up_restarts, besides_upvars>>

\* upload_buildrequest: every remote failed, the exception goes to precheck
upload_failed ==
    /\ up_pc = "try"
    /\ up_tried = UploadHosts
    /\ up_pc' = "idle"
    /\ UNCHANGED <<breq_saved, sentinel, up_transfers, up_host, up_idx, up_tried, up_last, nprecheck, up_restarts, besides_upvars>>

\* stop and start of the coordinator: the spool directory stays, the objects go
coordinator_restart ==
    /\ up_pc = "idle"
    /\ up_restarts < MaxRestarts
    /\ up_restarts' = up_restarts + 1
    /\ up_host' = NoValue
    /\ up_idx' = 1
    /\ up_tried' = {}
    /\ up_last' = "none"
    /\ UNCHANGED <<breq_saved, sentinel, up_transfers, up_pc, nprecheck, besides_upvars>>

InitUploading == InitIdle /\ InitSide

NextUpload ==
    \/ gen_buildrequests
    \/ \E r \in UploadHosts : upload_already(r)
    \/ \E r \in UploadHosts : upload_connect(r)
    \/ upload_storbinary
    \/ upload_write
    \/ upload_failed
    \/ coordinator_restart

SpecUpload == InitUploading /\ [][NextUpload]_vars

(***************************************************************************)
(* misc.BlockQueue: the build queue of the daemon.                         *)
(***************************************************************************)
MaxPuts == 3

\* a queue that never counts as full
full_never(qsize, maxsize) == FALSE

\* queue.Queue(maxsize): put waits while the queue holds maxsize items
full(qsize, maxsize) == qsize >= maxsize

\* round(float(n) / maxsize, 2), in hundredths
round2(n, maxsize) ==
    LET q == (100 * n) \div maxsize
        r == (100 * n) % maxsize
    IN IF 2 * r < maxsize THEN q
       ELSE IF 2 * r > maxsize THEN q + 1
       ELSE IF q % 2 = 0 THEN q ELSE q + 1

\* BlockQueue.load
load(active, pending, maxsize) == round2(active + pending, maxsize)

\* put: self._pending += 1, the read of the counter
put_pending_read(t) ==
    /\ bq_pc[t] = "idle"
    /\ bq_nput < MaxPuts
    /\ bq_nput' = bq_nput + 1
    /\ bq_tmp' = [bq_tmp EXCEPT ![t] = bq_pending]
    /\ bq_pc' = [bq_pc EXCEPT ![t] = "inc"]
    /\ UNCHANGED <<bq_pending, bq_active, bq_queue, bq_building, bq_load, besides_bqvars>>

\* put: self._pending += 1, the store of the counter
put_pending_inc(t) ==
    /\ bq_pc[t] = "inc"
    /\ bq_pending' = bq_tmp[t] + 1
    /\ bq_pc' = [bq_pc EXCEPT ![t] = "active_put"]
    /\ UNCHANGED <<bq_active, bq_queue, bq_building, bq_tmp, bq_nput, bq_load, besides_bqvars>>

\* put: self._active.put(item) returns once _active is not full
put_active(t) ==
    /\ bq_pc[t] = "active_put"
    /\ ~full(bq_active, build_queue_size)
    /\ bq_active' = bq_active + 1
    /\ bq_pc' = [bq_pc EXCEPT ![t] = "queue_put"]
    /\ UNCHANGED <<bq_pending, bq_queue, bq_building, bq_tmp, bq_nput, bq_load, besides_bqvars>>

\* put: queue.Queue.put(self, item), then the read of self._pending -= 1
put_queue(t) ==
    /\ bq_pc[t] = "queue_put"
    /\ ~full(bq_queue, build_queue_size)
    /\ bq_queue' = bq_queue + 1
    /\ bq_pc' = [bq_pc EXCEPT ![t] = "dec_read"]
    /\ UNCHANGED <<bq_pending, bq_active, bq_building, bq_tmp, bq_nput, bq_load, besides_bqvars>>

\* put: self._pending -= 1, the read of the counter
put_pending_read_dec(t) ==
    /\ bq_pc[t] = "dec_read"
    /\ bq_tmp' = [bq_tmp EXCEPT ![t] = bq_pending]
    /\ bq_pc' = [bq_pc EXCEPT ![t] = "dec"]
    /\ UNCHANGED <<bq_pending, bq_active, bq_queue, bq_building, bq_nput, bq_load, besides_bqvars>>

\* put: self._pending -= 1, the store of the counter
put_pending_dec(t) ==
    /\ bq_pc[t] = "dec"
    /\ bq_pending' = bq_tmp[t] - 1
    /\ bq_pc' = [bq_pc EXCEPT ![t] = "idle"]
    /\ UNCHANGED <<bq_active, bq_queue, bq_building, bq_tmp, bq_nput, bq_load, besides_bqvars>>

\* builder.run: event = daemon_.build_queue.get(), a build thread is started
build_queue_get ==
    /\ bq_queue > 0
    /\ bq_queue' = bq_queue - 1
    /\ bq_building' = bq_building + 1
    /\ UNCHANGED <<bq_pending, bq_active, bq_pc, bq_tmp, bq_nput, bq_load, besides_bqvars>>

\* builder.build, finally: daemon_.build_queue.task_done()
task_done ==
    /\ bq_building > 0
    /\ bq_active > 0
    /\ bq_active' = bq_active - 1
    /\ bq_building' = bq_building - 1
    /\ UNCHANGED <<bq_pending, bq_queue, bq_pc, bq_tmp, bq_nput, bq_load, besides_bqvars>>

\* Status._run: self.load = self.daemon.build_queue.load
status_load ==
    /\ bq_load' = <<load(bq_active, bq_pending, build_queue_size)>>
    /\ UNCHANGED <<bq_pending, bq_active, bq_queue, bq_building, bq_pc, bq_tmp, bq_nput, besides_bqvars>>

InitQueueing == InitIdle /\ InitSide

NextBlockQueue ==
    \/ \E t \in BqThreads : put_pending_read(t)
    \/ \E t \in BqThreads : put_pending_inc(t)
    \/ \E t \in BqThreads : put_active(t)
    \/ \E t \in BqThreads : put_queue(t)
    \/ \E t \in BqThreads : put_pending_read_dec(t)
    \/ \E t \in BqThreads : put_pending_dec(t)
    \/ build_queue_get
    \/ task_done
    \/ status_load

SpecBlockQueue == InitQueueing /\ [][NextBlockQueue]_vars

(***************************************************************************)
(* daemon.Keyrings: the remotes and uploaders keyrings and their rebuild.  *)
(***************************************************************************)
MaxUpdates == 2
MaxCalls == 2

\* Keyrings.set_needs_update, called when a key or repository model changes
set_needs_update ==
    /\ kr_nupdates < MaxUpdates
    /\ kr_nupdates' = kr_nupdates + 1
    /\ kr_needs_update' = TRUE
    /\ UNCHANGED <<kr_remotes, kr_uploaders, kr_closed, kr_next, kr_pc, kr_kind, kr_ret, kr_ncalls, kr_nrebuilds, krvervars, besides_krvars>>

\* get_remotes / get_uploaders is called by the packager or a build thread
keyrings_get(t, kind) ==
    /\ kr_pc[t] = "idle"
    /\ kr_ncalls < MaxCalls
    /\ kr_ncalls' = kr_ncalls + 1
    /\ kr_kind' = [kr_kind EXCEPT ![t] = kind]
    /\ kr_ret' = [kr_ret EXCEPT ![t] = <<>>]
    /\ kr_pc' = [kr_pc EXCEPT ![t] = "check"]
    /\ kr_start' = [kr_start EXCEPT ![t] = kr_nupdates]
    /\ UNCHANGED <<kr_remotes, kr_uploaders, kr_needs_update, kr_closed, kr_next, kr_nupdates, kr_nrebuilds, kr_version, besides_krvars>>

\* _update: the test of self._needs_update
update_check(t) ==
    /\ kr_pc[t] = "check"
    /\ IF kr_needs_update
       THEN /\ kr_pc' = [kr_pc EXCEPT ![t] = "close_remotes"]
            /\ kr_nrebuilds' = kr_nrebuilds + 1
       ELSE /\ kr_pc' = [kr_pc EXCEPT ![t] = "return"]
            /\ UNCHANGED kr_nrebuilds
    /\ UNCHANGED <<kr_remotes, kr_uploaders, kr_needs_update, kr_closed, kr_next, kr_kind, kr_ret, kr_ncalls, kr_nupdates, krvervars, besides_krvars>>

\* close: self._remotes.close()
close_remotes(t) ==
    /\ kr_pc[t] = "close_remotes"
    /\ kr_closed' = kr_closed \cup {kr_remotes}
    /\ kr_pc' = [kr_pc EXCEPT ![t] = "close_uploaders"]
    /\ UNCHANGED <<kr_remotes, kr_uploaders, kr_needs_update, kr_next, kr_kind, kr_ret, kr_ncalls, kr_nupdates, kr_nrebuilds, krvervars, besides_krvars>>

\* close: u.close() for the uploaders keyrings
close_uploaders(t) ==
    /\ kr_pc[t] = "close_uploaders"
    /\ kr_closed' = kr_closed \cup {kr_uploaders}
    /\ kr_pc' = [kr_pc EXCEPT ![t] = "init_remotes"]
    /\ UNCHANGED <<kr_remotes, kr_uploaders, kr_needs_update, kr_next, kr_kind, kr_ret, kr_ncalls, kr_nupdates, kr_nrebuilds, krvervars, besides_krvars>>

\* __init__: self._remotes = self._gen_remotes(), a new and filled keyring
init_remotes(t) ==
    /\ kr_pc[t] = "init_remotes"
    /\ kr_remotes' = kr_next
    /\ kr_next' = kr_next + 1
    /\ kr_version' = Append(kr_version, kr_nupdates)
    /\ kr_pc' = [kr_pc EXCEPT ![t] = "init_uploaders"]
    /\ UNCHANGED <<kr_uploaders, kr_needs_update, kr_closed, kr_kind, kr_ret, kr_ncalls, kr_nupdates, kr_nrebuilds, kr_start, besides_krvars>>

\* __init__: self._uploaders = self._gen_uploaders()
init_uploaders(t) ==
    /\ kr_pc[t] = "init_uploaders"
    /\ kr_uploaders' = kr_next
    /\ kr_next' = kr_next + 1
    /\ kr_version' = Append(kr_version, kr_nupdates)
    /\ kr_pc' = [kr_pc EXCEPT ![t] = "init_flag"]
    /\ UNCHANGED <<kr_remotes, kr_needs_update, kr_closed, kr_kind, kr_ret, kr_ncalls, kr_nupdates, kr_nrebuilds, kr_start, besides_krvars>>

\* __init__: self._needs_update = False
init_needs_update(t) ==
    /\ kr_pc[t] = "init_flag"
    /\ kr_needs_update' = FALSE
    /\ kr_pc' = [kr_pc EXCEPT ![t] = "return"]
    /\ UNCHANGED <<kr_remotes, kr_uploaders, kr_closed, kr_next, kr_kind, kr_ret, kr_ncalls, kr_nupdates, kr_nrebuilds, krvervars, besides_krvars>>

\* get_remotes / get_uploaders: return self._remotes / self._uploaders
keyrings_return(t) ==
    /\ kr_pc[t] = "return"
    /\ LET k == IF kr_kind[t] = "remotes" THEN kr_remotes ELSE kr_uploaders
       IN kr_ret' = [kr_ret EXCEPT ![t] = <<[keyring |-> k, closed |-> k \in kr_closed]>>]
    /\ kr_pc' = [kr_pc EXCEPT ![t] = "idle"]
    /\ UNCHANGED <<kr_remotes, kr_uploaders, kr_needs_update, kr_closed, kr_next, kr_kind, kr_ncalls, kr_nupdates, kr_nrebuilds, krvervars, besides_krvars>>

InitKeyringsRun == InitIdle /\ InitSide

NextKeyrings ==
    \/ set_needs_update
    \/ \E t \in KrThreads, kind \in {"remotes", "uploaders"} : keyrings_get(t, kind)
    \/ \E t \in KrThreads : update_check(t)
    \/ \E t \in KrThreads : close_remotes(t)
    \/ \E t \in KrThreads : close_uploaders(t)
    \/ \E t \in KrThreads : init_remotes(t)
    \/ \E t \in KrThreads : init_uploaders(t)
    \/ \E t \in KrThreads : init_needs_update(t)
    \/ \E t \in KrThreads : keyrings_return(t)

SpecKeyrings == InitKeyringsRun /\ [][NextKeyrings]_vars

(***************************************************************************)
(* models.base.StatusModel: prepare, check, activate, deactivate, remove.  *)
(***************************************************************************)
MaxActions == 4
MaxRounds == 2

\* StatusModel.days_until_recheck: Days-Until-Recheck, default 6
days_until_recheck == 6

mbd_is_prepared(o) == o.status >= STATUS_PREPARED
mbd_is_active(o) == o.status >= STATUS_ACTIVE
mbd_is_checked(o) == o.last_checked > CHECK_MAX
mbd_is_changed(o) == o.last_checked = CHECK_CHANGED
mbd_needs_check(o, now) == ~mbd_is_checked(o) \/ o.last_checked < stamp(now) - days_until_recheck

Max2(a, b) == IF a >= b THEN a ELSE b
Min2(a, b) == IF a <= b THEN a ELSE b

Outcome(o, raised) == [obj |-> o, raised |-> raised]

\* StatusModel.mbd_set_changed (Admin.save_model with change)
mbd_set_changed(o) ==
    StatusObj(IF mbd_is_active(o) THEN STATUS_PREPARED ELSE o.status, CHECK_CHANGED)

\* Admin.mbd_prepare; ok: obj.mbd_prepare / obj.mbd_sync does not raise
Admin_mbd_prepare(o, ok) ==
    IF ~mbd_is_prepared(o) \/ mbd_is_changed(o)
    THEN IF ok THEN Outcome(StatusObj(STATUS_PREPARED, CHECK_NONE), FALSE)
         ELSE Outcome(o, TRUE)
    ELSE Outcome(o, FALSE)

\* Admin.mbd_check where a failed check of an active object only marks it failed
Admin_mbd_check_marks_failed(o, force, needs_activation, ok, now) ==
    IF mbd_is_prepared(o) /\ ~mbd_is_changed(o)
    THEN IF ok /\ ~(needs_activation /\ ~mbd_is_active(o))
         THEN Outcome(StatusObj(o.status, stamp(now)), FALSE)
         ELSE Outcome(StatusObj(STATUS_PREPARED, CHECK_FAILED), TRUE)
    ELSE Outcome(o, TRUE)

\* Admin.mbd_check; ok: obj.mbd_check does not raise
Admin_mbd_check(o, force, needs_activation, ok, now) ==
    IF mbd_is_prepared(o) /\ ~mbd_is_changed(o)
    THEN LET runs == force \/ mbd_needs_check(o, now)
             \* the object after the try block, if obj.mbd_check does not raise
             checked ==
                 IF runs
                 THEN StatusObj(IF o.last_checked = CHECK_REACTIVATE
                                THEN STATUS_ACTIVE ELSE o.status, stamp(now))
                 ELSE o
             \* where the exception is raised from: obj.mbd_check or needs_activation
             at == IF runs /\ ~ok THEN o ELSE checked
             marked == StatusObj(at.status, Max2(at.last_checked, CHECK_FAILED))
         IN IF (runs /\ ~ok) \/ (needs_activation /\ ~mbd_is_active(checked))
            THEN Outcome(IF mbd_is_active(marked)
                         THEN StatusObj(STATUS_PREPARED, CHECK_REACTIVATE)
                         ELSE marked, TRUE)
            ELSE Outcome(checked, FALSE)
    ELSE Outcome(o, TRUE)

\* Admin.mbd_activate
Admin_mbd_activate(o) ==
    IF mbd_is_prepared(o) /\ mbd_is_checked(o)
    THEN Outcome(StatusObj(STATUS_ACTIVE, o.last_checked), FALSE)
    ELSE IF mbd_is_prepared(o) /\ o.last_checked \in {CHECK_FAILED, CHECK_NONE}
    THEN Outcome(StatusObj(o.status, CHECK_REACTIVATE), FALSE)
    ELSE IF mbd_is_active(o) THEN Outcome(o, FALSE)
    ELSE Outcome(o, TRUE)

\* Admin.mbd_deactivate
Admin_mbd_deactivate(o) ==
    StatusObj(Min2(STATUS_PREPARED, o.status),
              IF o.last_checked = CHECK_REACTIVATE THEN CHECK_FAILED ELSE o.last_checked)

\* Admin.mbd_remove; ok: obj.mbd_remove does not raise
Admin_mbd_remove(o, ok) ==
    IF mbd_is_prepared(o)
    THEN IF ok THEN Outcome(StatusObj(STATUS_REMOVED, CHECK_NONE), FALSE)
         ELSE Outcome(o, TRUE)
    ELSE Outcome(o, FALSE)

\* admin action Prepare on object r, a day or a week after the last action
action_prepare(r) ==
    \E days \in {1, 7}, ok \in BOOLEAN :
        /\ sm_nacts < MaxActions
        /\ sm_nacts' = sm_nacts + 1
        /\ sm_now' = sm_now + days
        /\ sm_obj' = [sm_obj EXCEPT ![r] = Admin_mbd_prepare(sm_obj[r], ok).obj]
        /\ sm_last' = <<[action |-> "prepare", on |-> r]>>
        /\ UNCHANGED besides_smvars

\* admin action Check (forced or scheduled, for itself or as a dependency)
action_check(r) ==
    \E days \in {1, 7}, ok \in BOOLEAN, force \in BOOLEAN, needs_activation \in BOOLEAN :
        /\ sm_nacts < MaxActions
        /\ sm_nacts' = sm_nacts + 1
        /\ sm_now' = sm_now + days
        /\ sm_obj' = [sm_obj EXCEPT ![r] = Admin_mbd_check(sm_obj[r], force, needs_activation, ok, sm_now + days).obj]
        /\ sm_last' = <<[action |-> "check", on |-> r]>>
        /\ UNCHANGED besides_smvars

\* admin action Activate
action_activate(r) ==
    \E days \in {1, 7} :
        /\ sm_nacts < MaxActions
        /\ sm_nacts' = sm_nacts + 1
        /\ sm_now' = sm_now + days
        /\ sm_obj' = [sm_obj EXCEPT ![r] = Admin_mbd_activate(sm_obj[r]).obj]
        /\ sm_last' = <<[action |-> "activate", on |-> r]>>
        /\ UNCHANGED besides_smvars

\* admin action Deactivate
action_deactivate(r) ==
    \E days \in {1, 7} :
        /\ sm_nacts < MaxActions
        /\ sm_nacts' = sm_nacts + 1
        /\ sm_now' = sm_now + days
        /\ sm_obj' = [sm_obj EXCEPT ![r] = Admin_mbd_deactivate(sm_obj[r])]
        /\ sm_last' = <<[action |-> "deactivate", on |-> r]>>
        /\ UNCHANGED besides_smvars

\* admin action Remove
action_remove(r) ==
    \E days \in {1, 7}, ok \in BOOLEAN :
        /\ sm_nacts < MaxActions
        /\ sm_nacts' = sm_nacts + 1
        /\ sm_now' = sm_now + days
        /\ sm_obj' = [sm_obj EXCEPT ![r] = Admin_mbd_remove(sm_obj[r], ok).obj]
        /\ sm_last' = <<[action |-> "remove", on |-> r]>>
        /\ UNCHANGED besides_smvars

\* Admin.save_model of a changed object: obj.mbd_set_changed
save_model(r) ==
    \E days \in {1, 7} :
        /\ sm_nacts < MaxActions
        /\ sm_nacts' = sm_nacts + 1
        /\ sm_now' = sm_now + days
        /\ sm_obj' = [sm_obj EXCEPT ![r] = mbd_set_changed(sm_obj[r])]
        /\ sm_last' = <<[action |-> "set_changed", on |-> r]>>
        /\ UNCHANGED besides_smvars

\* objects as the admin site creates them: Removed, unchecked
InitStatusAdmin ==
    /\ InitIdle
    /\ InitBoot
    /\ InitReprepro
    /\ InitDaemon
    /\ InitPure
    /\ InitUpload
    /\ InitBlockQueue
    /\ InitKeyrings
    /\ InitRuntime
    /\ sm_obj = [r \in Candidates \ {"self"} |-> StatusObj(STATUS_REMOVED, CHECK_NONE)]
    /\ sm_now = 1
    /\ sm_nacts = 0
    /\ sm_last = <<>>

NextStatusAdmin ==
    \/ \E r \in Candidates \ {"self"} : action_prepare(r)
    \/ \E r \in Candidates \ {"self"} : action_check(r)
    \/ \E r \in Candidates \ {"self"} : action_activate(r)
    \/ \E r \in Candidates \ {"self"} : action_deactivate(r)
    \/ \E r \in Candidates \ {"self"} : action_remove(r)
    \/ \E r \in Candidates \ {"self"} : save_model(r)

SpecStatusAdmin == InitStatusAdmin /\ [][NextStatusAdmin]_vars

(***************************************************************************)
(* Dispatch rounds over the remotes' status objects:                       *)
(* Changes.upload_buildrequest checks every remote of                      *)
(* Remote.mbd_get_active_or_auto_reactivate() with Admin.mbd_check(force). *)
(***************************************************************************)
\* Remote.mbd_get_active_or_auto_reactivate(): status >= ACTIVE or last_checked = CHECK_REACTIVATE
mbd_get_active_or_auto_reactivate(objs) ==
    SelectSeq(SubSeq(RemoteNames, 1, NRemotes),
              LAMBDA r : mbd_is_active(objs[r]) \/ objs[r].last_checked = CHECK_REACTIVATE)

\* Remote.mbd_check: status refresh, "does not know us", "is down"
Remote_mbd_check(s) == s.reach /\ s.running

\* what check_remote sees of candidate c: Admin.mbd_check raising skips add_remote
checked_input(objs, inp, now) ==
    [c \in DOMAIN inp |->
        IF c \in DOMAIN objs
        THEN [inp[c] EXCEPT !.reach =
                  ~Admin_mbd_check(objs[c], TRUE, FALSE, Remote_mbd_check(inp[c]), now).raised]
        ELSE inp[c]]

\* the order of a round without remote r
without(order, r) == SelectSeq(order, LAMBDA c : c # r)

\* one dispatch round: the own instance first, then every remote of the queryset
dispatch_round ==
    \E inp \in [Candidates -> CandInputs] :
        LET now == sm_now + 1
            qs == mbd_get_active_or_auto_reactivate(sm_obj)
            inq == {qs[i] : i \in 1..Len(qs)}
            check(r) == Admin_mbd_check(sm_obj[r], TRUE, FALSE, Remote_mbd_check(inp[r]), now)
            raised == {r \in inq : check(r).raised}
            before == IF sm_last = <<>> THEN {} ELSE sm_last[1].skipped \cup sm_last[1].raised
        IN /\ sm_nacts < MaxRounds
           /\ sm_nacts' = sm_nacts + 1
           /\ sm_now' = now
           /\ sm_obj' = [r \in DOMAIN sm_obj |-> IF r \in inq THEN check(r).obj ELSE sm_obj[r]]
           /\ sm_last' = <<[inp |-> inp, order |-> <<"self">> \o qs, raised |-> raised,
                            skipped |-> before,
                            res |-> upload_buildrequest(<<"self">> \o qs,
                                                        checked_input(sm_obj, inp, now))]>>
           /\ UNCHANGED besides_smvars

NextRemoteRounds == dispatch_round

\* the remotes configured are active and checked
InitRemoteRounds == InitIdle /\ InitSide

SpecRemoteRounds == InitRemoteRounds /\ [][NextRemoteRounds]_vars

(***************************************************************************)
(* The running daemon: daemon.run (the ingest consumer), the "build        *)
(* queuer" threads, the build queue, builder.run, the build threads and    *)
(* Daemon.stop / Daemon.start.                                             *)
(*                                                                         *)
(* BlockQueue.put is taken at its blocking point (the admission into       *)
(* _active); its counter steps are the subject of the BlockQueue section.  *)
(***************************************************************************)
\* number of manifests delivered by FTP
MaxEvents == 3

\* the event id of "SHUTDOWN"
ShutdownId == 0

\* manifests delivered: two build requests and a user upload or build result
BreqManifests == {"a", "b"}
Manifests == BreqManifests \cup {"u"}

\* what Changes(event) does in builder.run: the manifest is parsed, it is gone
\* (an empty Changes), or open / parse raises
Reads == {"parsed", "gone", "raises"}

\* run_as_thread(thread_func, name): the function runs in a thread of its own
run_inline(caller, name) == caller
run_as_thread(caller, name) == name

\* Build.key: breq.get_pkg_id(with_arch=True); one package and architecture
\* per manifest
Build_key(n) == rt_man[n]

\* Changes.get_spool_dir: SPOOL_DIR/<type>-<sha1 of the manifest>
get_spool_dir(n) == <<"buildrequest", rt_man[n]>>

\* the build threads admitted by build queue g that have not called task_done
Unreleased(g) == {b \in rt_builds : b.q = g}

\* Thread.join returns once the thread has ended, however it ended
joined_on_sentinel(builder) == builder = "done"
joined(builder) == builder \in {"done", "dead"}

\* the "build queuer" threads that wait for a slot of the queue in use
Waiting == {h \in rt_helpers : h.q = rt_gen /\ full(rt_active[rt_gen], rt_maxsize)}

\* ftpd: a manifest is put on the incoming queue, by on_disconnect or by
\* requeue_changes; a manifest still in incoming is queued again by either
ftpd_put(f) ==
    /\ rt_pc \in {"get", "put"}
    /\ Len(rt_man) < MaxEvents
    /\ rt_man' = Append(rt_man, f)
    /\ rt_incoming' = Append(rt_incoming, Len(rt_man) + 1)
    /\ UNCHANGED <<rt_maxsize, rt_gen, rt_pc, rt_helpers, rt_active, rt_queue, rt_builder, rt_builds,
                   rt_map, rt_done, rt_handled, rt_stop, besides_rtvars>>

\* daemon.run: one turn of the loop
incoming_get ==
    /\ rt_pc = "get"
    /\ rt_incoming # <<>>
    /\ \A h \in rt_helpers : h.by # "packager"
    /\ rt_incoming' = Tail(rt_incoming)
    /\ LET event == Head(rt_incoming)
       IN IF event = ShutdownId
          THEN /\ rt_pc' = "put"
               /\ rt_handled' = Append(rt_handled,
                      [n |-> ShutdownId, behind |-> {h.n : h \in Waiting}])
               /\ UNCHANGED rt_helpers
          ELSE IF rt_man[event] \in BreqManifests
          THEN /\ rt_helpers' = rt_helpers \cup
                      {[n |-> event, q |-> 0, by |-> run_as_thread("packager", "build queuer")]}
               /\ UNCHANGED <<rt_pc, rt_handled>>
          ELSE /\ rt_handled' = Append(rt_handled,
                      [n |-> event, behind |-> {h.n : h \in Waiting}])
               /\ UNCHANGED <<rt_pc, rt_helpers>>
    /\ UNCHANGED <<rt_maxsize, rt_gen, rt_man, rt_active, rt_queue, rt_builder, rt_builds, rt_map,
                   rt_done, rt_stop, besides_rtvars>>

\* queue_buildrequest: get().build_queue is evaluated, put starts
queue_buildrequest(h) ==
    /\ h \in rt_helpers
    /\ h.q = 0
    /\ rt_helpers' = (rt_helpers \ {h}) \cup {[h EXCEPT !.q = rt_gen]}
    /\ UNCHANGED <<rt_maxsize, rt_gen, rt_man, rt_incoming, rt_pc, rt_active, rt_queue, rt_builder,
                   rt_builds, rt_map, rt_done, rt_handled, rt_stop, besides_rtvars>>

\* BlockQueue.put of a "build queuer": admitted once _active is not full
build_queue_put(h) ==
    /\ h \in rt_helpers
    /\ h.q # 0
    /\ ~full(rt_active[h.q], rt_maxsize)
    /\ rt_active' = [rt_active EXCEPT ![h.q] = @ + 1]
    /\ rt_queue' = [rt_queue EXCEPT ![h.q] = Append(@, h.n)]
    /\ rt_helpers' = rt_helpers \ {h}
    /\ UNCHANGED <<rt_maxsize, rt_gen, rt_man, rt_incoming, rt_pc, rt_builder, rt_builds, rt_map,
                   rt_done, rt_handled, rt_stop, besides_rtvars>>

\* daemon.run after the loop: get().build_queue.put("SHUTDOWN")
shutdown_put ==
    /\ rt_pc = "put"
    /\ ~full(rt_active[rt_gen], rt_maxsize)
    /\ rt_active' = [rt_active EXCEPT ![rt_gen] = @ + 1]
    /\ rt_queue' = [rt_queue EXCEPT ![rt_gen] = Append(@, ShutdownId)]
    /\ rt_pc' = "join"
    /\ UNCHANGED <<rt_maxsize, rt_gen, rt_man, rt_incoming, rt_helpers, rt_builder, rt_builds, rt_map,
                   rt_done, rt_handled, rt_stop, besides_rtvars>>

\* builder.run: one turn of the loop; Changes(event) is built in the loop
builder_get ==
    /\ rt_builder = "run"
    /\ rt_queue[rt_gen] # <<>>
    /\ rt_queue' = [rt_queue EXCEPT ![rt_gen] = Tail(@)]
    /\ LET event == Head(rt_queue[rt_gen])
       IN IF event = ShutdownId
          THEN /\ rt_builder' = "done"
               /\ UNCHANGED rt_builds
          ELSE \E read \in Reads :
                  IF read = "raises"
                  THEN /\ rt_builder' = "dead"
                       /\ UNCHANGED rt_builds
                  ELSE /\ rt_builds' = rt_builds \cup
                              {[n |-> event, q |-> rt_gen, pc |-> "start", read |-> read,
                                out |-> NoValue]}
                       /\ UNCHANGED rt_builder
    /\ UNCHANGED <<rt_maxsize, rt_gen, rt_man, rt_incoming, rt_pc, rt_helpers, rt_active, rt_map,
                   rt_done, rt_handled, rt_stop, besides_rtvars>>

\* builder.build: build = Build(...); daemon_.builds[build.key] = build.
\* Build() of an empty Changes raises a KeyError: no build object.
build_start(b) ==
    /\ b \in rt_builds
    /\ b.pc = "start"
    /\ IF b.read = "gone"
       THEN /\ rt_builds' = (rt_builds \ {b}) \cup {[b EXCEPT !.pc = "task_done", !.out = "no build"]}
            /\ UNCHANGED rt_map
       ELSE /\ rt_builds' = (rt_builds \ {b}) \cup {[b EXCEPT !.pc = "building"]}
            /\ rt_map' = DictSet(rt_map, Build_key(b.n), b.n)
    /\ UNCHANGED <<rt_maxsize, rt_gen, rt_man, rt_incoming, rt_pc, rt_helpers, rt_active, rt_queue,
                   rt_builder, rt_done, rt_handled, rt_stop, besides_rtvars>>

\* the ways builder.build leaves its try statement for a build object: the
\* try block ends (result uploaded, or its upload failed and is retried
\* later), the except block ends (signature rejected or build error, failure
\* result sent), the except block raises (failure result not sent)
Outcomes == {"try ended", "failure result sent", "failure result not sent"}

\* builder.build up to build_close: the entry of build.key is deleted from
\* daemon.builds
build_close(b) ==
    /\ b \in rt_builds
    /\ b.pc = "building"
    /\ \E out \in Outcomes :
           rt_builds' = (rt_builds \ {b}) \cup {[b EXCEPT !.pc = "task_done", !.out = out]}
    /\ rt_map' = [k \in DOMAIN rt_map \ {Build_key(b.n)} |-> rt_map[k]]
    /\ UNCHANGED <<rt_maxsize, rt_gen, rt_man, rt_incoming, rt_pc, rt_helpers, rt_active, rt_queue,
                   rt_builder, rt_done, rt_handled, rt_stop, besides_rtvars>>

\* builder.build, finally: daemon_.build_queue.task_done(); _active.get()
\* waits while _active is empty
build_task_done(b) ==
    /\ b \in rt_builds
    /\ b.pc = "task_done"
    /\ rt_active[rt_gen] > 0
    /\ rt_active' = [rt_active EXCEPT ![rt_gen] = @ - 1]
    /\ rt_done' = rt_done \cup {[n |-> b.n, q |-> b.q, released |-> rt_gen]}
    /\ rt_builds' = rt_builds \ {b}
    /\ UNCHANGED <<rt_maxsize, rt_gen, rt_man, rt_incoming, rt_pc, rt_helpers, rt_queue, rt_builder,
                   rt_map, rt_handled, rt_stop, besides_rtvars>>

\* daemon.run: builder_thread.join() and ftpd_thread.join() return
run_join ==
    /\ rt_pc = "join"
    /\ joined(rt_builder)
    /\ rt_pc' = "returned"
    /\ UNCHANGED <<rt_maxsize, rt_gen, rt_man, rt_incoming, rt_helpers, rt_active, rt_queue, rt_builder,
                   rt_builds, rt_map, rt_done, rt_handled, rt_stop, besides_rtvars>>

\* Daemon.stop: self.incoming_queue.put("SHUTDOWN"), then self.thread.join()
stop_put ==
    /\ rt_stop = "idle"
    /\ rt_incoming' = Append(rt_incoming, ShutdownId)
    /\ rt_stop' = "wait"
    /\ UNCHANGED <<rt_maxsize, rt_gen, rt_man, rt_pc, rt_helpers, rt_active, rt_queue, rt_builder,
                   rt_builds, rt_map, rt_done, rt_handled, besides_rtvars>>

\* Daemon.stop after the join: self.thread = None; self._update_from_model()
stop_joined ==
    /\ rt_stop = "wait"
    /\ rt_pc = "returned"
    /\ rt_stop' = "stopped"
    /\ rt_gen' = rt_gen + 1
    /\ rt_incoming' = <<>>
    /\ rt_map' = EmptyDict
    /\ UNCHANGED <<rt_maxsize, rt_man, rt_pc, rt_helpers, rt_active, rt_queue, rt_builder, rt_builds,
                   rt_done, rt_handled, besides_rtvars>>

\* Daemon.start: self._update_from_model(); daemon.run starts, which starts
\* builder.run
runtime_start ==
    /\ rt_stop = "stopped"
    /\ rt_gen < MaxGen
    /\ rt_stop' = "idle"
    /\ rt_gen' = rt_gen + 1
    /\ rt_incoming' = <<>>
    /\ rt_map' = EmptyDict
    /\ rt_pc' = "get"
    /\ rt_builder' = "run"
    /\ UNCHANGED <<rt_maxsize, rt_man, rt_helpers, rt_active, rt_queue, rt_builds, rt_done, rt_handled,
                   besides_rtvars>>

\* a daemon, started, with the build queue size it is configured with
InitDaemonRunning ==
    /\ InitIdle /\ InitBoot /\ InitReprepro /\ InitDaemon /\ InitPure
    /\ InitUpload /\ InitBlockQueue /\ InitKeyrings /\ InitStatusModel
    /\ InitRunning
    /\ rt_maxsize \in 1..build_queue_size

\* one run of the daemon, up to the return of Daemon.stop
NextRuntime ==
    \/ \E f \in Manifests : ftpd_put(f)
    \/ incoming_get
    \/ \E h \in rt_helpers : queue_buildrequest(h)
    \/ \E h \in rt_helpers : build_queue_put(h)
    \/ shutdown_put
    \/ builder_get
    \/ \E b \in rt_builds : build_start(b)
    \/ \E b \in rt_builds : build_close(b)
    \/ \E b \in rt_builds : build_task_done(b)
    \/ run_join
    \/ stop_put
    \/ stop_joined

\* runs of the daemon that serve the build requests of one package, with
\* Daemon.start after Daemon.stop
NextRestart ==
    \/ \E f \in {"a"} : ftpd_put(f)
    \/ incoming_get
    \/ \E h \in rt_helpers : queue_buildrequest(h)
    \/ \E h \in rt_helpers : build_queue_put(h)
    \/ shutdown_put
    \/ builder_get
    \/ \E b \in rt_builds : build_start(b)
    \/ \E b \in rt_builds : build_close(b)
    \/ \E b \in rt_builds : build_task_done(b)
    \/ run_join
    \/ stop_put
    \/ stop_joined
    \/ runtime_start

SpecRuntime == InitDaemonRunning /\ [][NextRuntime]_vars

SpecRestart == InitDaemonRunning /\ [][NextRestart]_vars

\* the threads of the daemon go on when they can; the deliveries by FTP and
\* the call of Daemon.stop are up to the environment
SpecRuntimeFair ==
    /\ SpecRuntime
    /\ WF_vars(incoming_get)
    /\ WF_vars(\E h \in rt_helpers : queue_buildrequest(h))
    /\ WF_vars(\E h \in rt_helpers : build_queue_put(h))
    /\ WF_vars(shutdown_put)
    /\ WF_vars(builder_get)
    /\ WF_vars(\E b \in rt_builds : build_start(b))
    /\ WF_vars(\E b \in rt_builds : build_close(b))
    /\ WF_vars(\E b \in rt_builds : build_task_done(b))
    /\ WF_vars(run_join)
    /\ WF_vars(stop_joined)

(***************************************************************************)
(* Properties.                                                             *)
(***************************************************************************)
\* architectures with a build-result on file
Collected == DOMAIN success \cup DOMAIN failed

\* the ingest consumer takes a build-result for an in-flight package
ConsumesResult ==
    /\ ppc = "idle"
    /\ incoming_queue # <<>>
    /\ Head(incoming_queue).type = "bres"
    /\ incoming_queue' = Tail(incoming_queue)
    /\ PID \in packages

\* the package is decided in this step
Decides == installs' > installs \/ status' # status \/ PID \notin packages'

\* C1: a verified build-result makes packager.run decide the package (attempt
\* the install, set a terminal status, close it) only if afterwards every
\* requested architecture has a build-result on file; otherwise the package
\* stays in BUILDING and in the packages map.
C1_DecideOnlyWhenAllCollected ==
    [][(ConsumesResult /\ verify_remotes(Head(incoming_queue)) /\ Decides)
          => requests \subseteq Collected']_vars

\* C2: with a non-empty failed map the install is never attempted and the
\* package never becomes INSTALLED; once all results are in with a failed
\* one, the status is FAILED.
C2_NoInstallWithFailed ==
    /\ (DOMAIN failed # {}) => installs = 0
    /\ (status = "INSTALLED") => DOMAIN failed = {}
    /\ (finished /\ DOMAIN failed # {}) => status = "FAILED"

\* C3: a build-result that fails verification against the remotes keyring
\* leaves status, success, failed and the packages map as they were.
C3_UnverifiedResultDropped ==
    [][(ConsumesResult /\ ~verify_remotes(Head(incoming_queue)))
          => (status' = status /\ success' = success /\ failed' = failed
              /\ packages' = packages)]_vars

\* the value of upload option ignore-lintian for architecture a: the
\* per-architecture value if given, else the global one, else false
IgnoreLintianFor(o, a) ==
    IF <<"ignore-lintian", a>> \in DOMAIN o THEN o[<<"ignore-lintian", a>>]
    ELSE IF <<"ignore-lintian", NoValue>> \in DOMAIN o THEN o[<<"ignore-lintian", NoValue>>]
    ELSE FALSE

\* the filing rule as the specification words it
AcceptedPerPolicy(c, b) ==
    /\ b.retval = 0
    /\ \/ b.sbuild_status = "skipped"
       \/ b.lintian = "pass"
       \/ c.experimental
       \/ c.lintian_mode < LINTIAN_FAIL_ON_ERROR
       \/ IgnoreLintianFor(c.options, b.arch)

\* C4: add_buildresult files a verified build-result b under success[b.arch]
\* exactly when AcceptedPerPolicy holds, and under failed[b.arch] otherwise;
\* the other map is left alone.
C4_FilingRule ==
    [][(ConsumesResult /\ verify_remotes(Head(incoming_queue)))
          => LET b == Head(incoming_queue)
             IN IF AcceptedPerPolicy(cfg, b)
                THEN success' = DictSet(success, b.arch, b) /\ failed' = failed
                ELSE failed' = DictSet(failed, b.arch, b) /\ success' = success]_vars

\* C4 happens: a result that did not pass lintian is filed under success only
\* because the per-architecture ignore-lintian overrides a global false
C4_Witness ==
    \E a \in DOMAIN success :
        /\ success[a].retval = 0
        /\ success[a].sbuild_status # "skipped"
        /\ success[a].lintian = "fail"
        /\ ~cfg.experimental
        /\ cfg.lintian_mode = LINTIAN_FAIL_ON_ERROR
        /\ <<"ignore-lintian", NoValue>> \in DOMAIN cfg.options
        /\ ~cfg.options[<<"ignore-lintian", NoValue>>]
        /\ <<"ignore-lintian", a>> \in DOMAIN cfg.options
        /\ cfg.options[<<"ignore-lintian", a>>]

\* C5: once an architecture of an in-flight package has a build-result on
\* file, that record stays as it is and the architecture never gets an entry
\* in the other map.
C5_FirstResultKept ==
    [][\A a \in AllArchs :
          (PID \in packages /\ PID \in packages' /\ a \in Collected)
             => /\ a \in DOMAIN success
                   => (a \in DOMAIN success' /\ success'[a] = success[a]
                       /\ a \notin DOMAIN failed')
                /\ a \in DOMAIN failed
                   => (a \in DOMAIN failed' /\ failed'[a] = failed[a]
                       /\ a \notin DOMAIN success')]_vars

\* the status edges of the specification
StatusEdges ==
    {<<"CHECKING", "BUILDING">>, <<"BUILDING", "INSTALLING">>,
     <<"INSTALLING", "INSTALLED">>, <<"INSTALLING", "FAILED">>,
     <<"CHECKING", "REJECTED">>}

\* C6: the status history of a package follows the edges CHECKING ->
\* BUILDING -> INSTALLING -> {INSTALLED, FAILED} and CHECKING -> REJECTED,
\* and a package that ends INSTALLED or FAILED was in INSTALLING exactly once.
C6_StatusEdges ==
    /\ \A i \in 1..(Len(trace) - 1) : <<trace[i], trace[i + 1]>> \in StatusEdges
    /\ (trace # <<>> /\ trace[Len(trace)] \in {"INSTALLED", "FAILED"})
          => Cardinality({i \in 1..Len(trace) : trace[i] = "INSTALLING"}) = 1

\* C7: when the build thread of a request has ended, a build-result for the
\* request (the real one or a synthesized failure) has been delivered to the
\* originator's ingest.
C7_ResultDelivered ==
    \A a \in Archs : bpc[a] = "done" => delivered[a] >= 1

\* C8: a build whose result upload failed is still there for a retry when
\* its thread has ended: status UPLOADING, spool directory with the signed
\* build-result kept, still in the builds map.
C8_UploadRetryPossible ==
    \A a \in Archs :
        (bpc[a] = "done" /\ bstatus[a] = "UPLOADING")
           => (spool[a] = "built" /\ a \in builds)

\* precheck has just failed to dispatch the request at the head of todo
DispatchFails(outcomes) ==
    /\ ppc = "precheck"
    /\ todo # <<>>
    /\ dispatch[Head(todo)] = "none"
    /\ dispatch'[Head(todo)] \in outcomes

\* what C9 promises for that step: the synthesized result is queued at the
\* own ingest, the loop goes on with the next request, the package stays
\* in flight and enters BUILDING after the last request
FailureReported ==
    /\ incoming_queue' = Append(incoming_queue,
          Buildresult(Head(todo), 100, "upload-failed", NoValue, "self", "self"))
    /\ todo' = Tail(todo)
    /\ PID \in packages'
    /\ status' = IF Tail(todo) = <<>> THEN "BUILDING" ELSE "CHECKING"

\* the collect step files a synthesized failure result under failed
FailureCollected ==
    (ConsumesResult /\ verify_remotes(Head(incoming_queue))
        /\ Head(incoming_queue).retval = 100)
       => LET b == Head(incoming_queue)
          IN b.arch \in DOMAIN failed' /\ failed'[b.arch] = b

Retained(c) == d_inp[c].reach /\ d_inp[c].running /\ d_inp[c].chroot

\* C10: the FTP uploads of a dispatch round go to retained candidates in
\* strictly ascending order of load, no lower load that is on offer is
\* skipped, every attempt but the last was refused, and the round ends with
\* the first accepting candidate, whose URL is recorded; if nobody accepts no
\* URL is recorded.
C10_AscendingLoadFirstAccept ==
    d_res.done =>
        LET att == d_res.attempts
            n == Len(att)
        IN /\ \A i \in 1..n : Retained(att[i])
           /\ \A i \in 1..(n - 1) : d_inp[att[i]].load < d_inp[att[i + 1]].load
           /\ \A i \in 1..(n - 1) : ~d_inp[att[i]].accept
           /\ \A c \in Candidates :
                 (n > 0 /\ d_inp[CandOrder[1]].reach /\ Retained(c)
                    /\ d_inp[c].load < d_inp[att[n]].load)
                    => \E i \in 1..n : d_inp[att[i]].load = d_inp[c].load
           /\ d_res.ok => (n > 0 /\ d_inp[att[n]].accept /\ d_res.url = att[n])
           /\ ~d_res.ok => (d_res.url = NoValue /\ \A i \in 1..n : ~d_inp[att[i]].accept)

\* C10 happens: three candidates of different load, only the last accepts
C10_Witness ==
    /\ d_res.done
    /\ d_res.ok
    /\ Len(d_res.attempts) >= 3

\* C11: a dispatch round whose own status refresh succeeded reports a
\* failure only after an FTP upload was attempted to every candidate that is
\* running and has the chroot, candidates of equal load included.
C11_EveryQualifyingCandidateAttempted ==
    (d_res.done /\ ~d_res.ok /\ d_inp[CandOrder[1]].reach)
       => \A c \in Candidates :
             Retained(c) => \E i \in 1..Len(d_res.attempts) : d_res.attempts[i] = c

\* C14: a package that ended REJECTED has no build-request accepted by any
\* builder and is not in the packages map.
C14_RejectedNothingDispatched ==
    status = "REJECTED"
       => (PID \notin packages /\ \A a \in Archs : dispatch[a] # "sent")

\* the build-request for a is signed by a key outside the remotes keyring
Unverified(a) == breq[a].signer \notin RemotesKeyring

\* C12 as stated: for a build-request that fails verification the build tool
\* is never started, the build is never in BUILDING, and it ends FAILED.
C12_NoBuildingPhase ==
    \A a \in Archs :
        Unverified(a)
           => /\ sbuild_runs[a] = 0
              /\ bstatus[a] # "BUILDING"
              /\ (bpc[a] \in {"finally", "done"} => bstatus[a] = "FAILED")

\* C12, amended: for a build-request that fails verification the build tool
\* is never started and Build.build is never entered, the build ends FAILED,
\* and it shows BUILDING only while a started-stamp of an earlier run is in
\* its spool directory (Build.__init__ sets it before the verification).
C12_NoBuildUnverified ==
    \A a \in Archs :
        Unverified(a)
           => /\ sbuild_runs[a] = 0
              /\ bpc[a] # "build"
              /\ (bstatus[a] = "BUILDING" => spool[a] = "started")
              /\ (bpc[a] \in {"finally", "done"} => bstatus[a] = "FAILED")

\* C12 happens: an unverified request has been handled to the end
C12_Witness ==
    \E a \in Archs :
        /\ Unverified(a)
        /\ bpc[a] = "done"
        /\ bstatus[a] = "FAILED"
        /\ sbuild_runs[a] = 0

\* C13: for a build-request that fails verification the builder opens no
\* transfer to the Upload-Result-To of the request and sends no build-result.
C13_UnverifiedDroppedSilently ==
    \A a \in Archs :
        Unverified(a) => (transfers[a] = 0 /\ delivered[a] = 0)

\* C15: after requeue_changes no build-result is queued before a user
\* upload, and the manifests of one kind are queued in directory order.
C15_UploadsBeforeResults ==
    inc_done =>
        /\ \A i, j \in DOMAIN inc_queue :
              (i < j) => ~(inc_queue[i].kind = "bres" /\ inc_queue[j].kind = "upload")
        /\ \A k \in {"upload", "breq", "bres"} :
              SelectSeq(inc_queue, LAMBDA c : c.kind = k)
                 = SelectSeq(inc_dir, LAMBDA c : c.kind = k)

\* the ingest consumer takes a build-result whose package id is not in the
\* packages map (an orphan)
ConsumesOrphan ==
    /\ ppc = "idle"
    /\ incoming_queue # <<>>
    /\ Head(incoming_queue).type = "bres"
    /\ Head(incoming_queue).pid \notin packages
    /\ incoming_queue' = Tail(incoming_queue)

\* C16: a build-result whose package id is not in the packages map is never
\* attributed: the step that consumes it leaves every package's status,
\* success and failed map alone, creates no package (the packages map and
\* the install count stay as they were), and the manifest is gone from the
\* queue.
C16_OrphanNeverAttributed ==
    [][ConsumesOrphan
          => /\ UNCHANGED <<packages, status, success, failed, requests, finished, installs>>
             /\ Len(incoming_queue') = Len(incoming_queue) - 1]_vars

\* an injected build-result was consumed before any upload: no Package exists
C16_Witness ==
    /\ ninject >= 1
    /\ ~uploaded
    /\ incoming_queue = <<>>
    /\ packages = {}
    /\ status = "NONE"

\* the thread runs a reprepro command or is between the steps of reindex
InsideRepository(t) == r_pc[t] \in {"call", "clearvanished", "rmtree", "export"}

\* C17: operations on one repository base directory run one at a time, also
\* through different Reprepro objects: no two threads are inside a command
\* or between the steps of reindex on the same base directory, a thread
\* inside holds the lock of its object from the first step of reindex to the
\* last; and a thread that waits for a lock only ever waits for a thread
\* working on the same base directory.
C17_SerialPerRepository ==
    /\ \A t, u \in ReprThreads :
          (t # u /\ InsideRepository(t) /\ InsideRepository(u))
             => r_basedir[t] # r_basedir[u]
    /\ \A t \in ReprThreads :
          InsideRepository(t) => lock_owner[r_lock[t]] = {t}
    /\ \A t \in ReprThreads :
          (r_pc[t] \in {"with_call_locked", "with_reindex"})
             => \A o \in lock_owner[r_lock[t]] : r_basedir[o] = r_basedir[t]

\* one thread is between two steps of reindex, a second one waits with an
\* command on the same repository, a third one runs a command on the other
C17_Witness ==
    \E t, u, w \in ReprThreads :
       /\ r_pc[t] = "rmtree"
       /\ r_pc[u] = "with_call_locked" /\ r_basedir[u] = r_basedir[t]
       /\ r_pc[w] = "call" /\ r_basedir[w] # r_basedir[t]

\* what start and stop may change of the daemon
DaemonState ==
    <<daemon_thread, e_pc, daemon_queue, unfinished_tasks, last_packages, pickled_data>>

\* at most one caller is inside start or stop, at most one engine thread is
\* alive, and a live engine thread is the one Daemon.thread refers to
OneEngine ==
    /\ Cardinality(daemon_lock) <= 1
    /\ Cardinality({e \in Engines : Alive(e)}) <= 1
    /\ \A e \in Engines : Alive(e) => daemon_thread = {e}

\* C18: start and stop exclude each other and are idempotent: at most one
\* caller is inside either and at most one engine thread is alive; a start
\* that finds the daemon running and a stop that finds it stopped change
\* nothing; and when stop returns after a join, thread is None and no engine
\* thread is alive.
C18_StartStopExclusive ==
    [][/\ OneEngine'
       /\ \A c \in Callers :
             (c_pc[c] = "start" /\ daemon_thread # {} /\ c_pc'[c] # "start")
                => UNCHANGED DaemonState
       /\ \A c \in Callers :
             (c_pc[c] = "stop" /\ daemon_thread = {} /\ c_pc'[c] # "stop")
                => UNCHANGED DaemonState
       /\ \A c \in Callers :
             (c_pc[c] = "stop_join" /\ c_pc'[c] = "idle")
                => (daemon_thread' = {} /\ \A e \in Engines : e_pc'[e] \notin {"get", "handle"})
      ]_vars

\* the daemon was started, stopped and started again, and a caller is inside
\* start while the second engine thread runs
C18_Witness ==
    /\ e_pc[1] = "exited"
    /\ Alive(2)
    /\ \E c \in Callers : c_pc[c] = "start"

\* the newest show_last_packages entries of a history
LastN(h) == SubSeq(h, 1, IF Len(h) < show_last_packages THEN Len(h) ELSE show_last_packages)

\* C19: whenever nobody is inside start or stop, last_packages holds the
\* newest show_last_packages of all packages closed so far: none that was
\* closed while a stop was in progress is missing after the stop.
C19_HistoryComplete ==
    (daemon_lock = {}) => last_packages = LastN(closed)

\* C20: an engine thread leaves the main loop only by dequeuing the SHUTDOWN
\* sentinel; handling a dequeued event ends with exactly one task_done for
\* it, whatever it raised, and the thread is back at get(); dequeuing alone
\* calls no task_done; no event gets a second task_done.
C20_ConsumerNeverAborts ==
    [][/\ \A e \in Engines :
             (e_pc[e] \in {"get", "handle"} /\ e_pc'[e] \notin {"get", "handle"})
                => /\ e_pc[e] = "get"
                   /\ daemon_queue # <<>>
                   /\ Head(daemon_queue) = SHUTDOWN
                   /\ e_pc'[e] = "exited"
       /\ \A e \in Engines :
             (e_pc[e] = "handle" /\ e_pc'[e] # "handle")
                => /\ unfinished_tasks' = unfinished_tasks - 1
                   /\ done' = Append(done, e_event[e])
                   /\ e_pc'[e] = "get"
       /\ \A e \in Engines :
             (e_pc[e] = "get" /\ e_pc'[e] = "handle")
                => UNCHANGED <<unfinished_tasks, done>>
       /\ \A i, j \in DOMAIN done' : (i # j) => done'[i] # done'[j]
      ]_vars

\* an event whose handling raised has been finished, an event put after it
\* has been finished as well, and the engine thread is at get() again
C20_Witness ==
    /\ \E i, j \in DOMAIN done :
          i < j /\ done[i].kind = "raise" /\ done[i].id < done[j].id
    /\ \E e \in Engines : e_pc[e] = "get"

\* C21: a package that has reached a terminal status and has been closed has
\* sent exactly one summary notification.
C21_OneNotification ==
    (cl_pc = "closed") => notifications = 1

\* the file is listed in the Files of a .changes file that is in /incoming
Referenced(f, dir) == \E c \in dir : is_changes(c) /\ f \in changes_Files(c)

\* C22: no step removes from /incoming a .changes file or a file that a
\* .changes file present in /incoming lists, whichever sessions they came
\* in; and the startup removal leaves no other file behind.
C22_CruftOnly ==
    [][/\ \A f \in incoming_dir \ incoming_dir' :
             ~is_changes(f) /\ ~Referenced(f, incoming_dir)
       /\ (~ftpd_up /\ ftpd_up')
             => \A f \in incoming_dir' : is_changes(f) \/ Referenced(f, incoming_dir)
      ]_vars

\* the string has the form codename-repoid-suite[-rollbackN]: three or four
\* parts between dashes, the first three non-empty and of word characters
\* only, the fourth the word rollback followed by decimal digits
WellFormedDistribution(s) ==
    LET p == split(s, "-")
    IN /\ Len(p) \in {3, 4}
       /\ \A i \in 1..3 : p[i] # <<>> /\ \A k \in DOMAIN p[i] : IsWord(p[i][k])
       /\ Len(p) = 4 =>
             /\ Len(p[4]) > Len(ROLLBACK) - 1
             /\ SubSeq(p[4], 1, Len(ROLLBACK) - 1) = Tail(ROLLBACK)
             /\ \A k \in Len(ROLLBACK)..Len(p[4]) : IsDigit(p[4][k])

\* C23: Distribution(s) succeeds exactly for the strings of the form
\* codename-repoid-suite[-rollbackN] and raises 'Malformed distribution' for
\* every other; on success get() is s, codename, repository and suite are
\* the first three parts and rollback_no is N (nothing without rollback).
C23_DistributionParse ==
    (dist_out # <<>>) =>
        LET d == dist_out[1]
            p == split(dist_in, "-")
        IN IF WellFormedDistribution(dist_in)
           THEN /\ d.raised = NoValue
                /\ d.get = dist_in
                /\ d.codename = p[1] /\ d.repository = p[2] /\ d.suite = p[3]
                /\ d.rollback_no =
                      IF Len(p) = 4
                      THEN <<int(SubSeq(p[4], Len(ROLLBACK), Len(p[4])))>>
                      ELSE <<>>
           ELSE d.raised = "Malformed distribution"

\* the version without its epoch: what follows the first colon
WithoutEpoch(version) ==
    IF \E i \in DOMAIN version : version[i] = ":"
    THEN LET i == CHOOSE i \in DOMAIN version :
                     version[i] = ":" /\ \A j \in 1..(i - 1) : version[j] # ":"
         IN SubSeq(version, i + 1, Len(version))
    ELSE version

\* C24: the Changes object made on the generated file name has the type the
\* name was generated for, and the second part of the name between
\* underscores is the version without its epoch.
C24_FileNameRoundTrip ==
    /\ (fn_type # <<>>) => fn_type[1] = fn_in[1].mbd_type
    /\ (fn_name # <<>>) => split(fn_name[1], "_")[2] = WithoutEpoch(fn_in[1].version)

(***************************************************************************)
(* C25: upload options of the top changelog block.                         *)
(***************************************************************************)
\* the items of the top block: the lines before the second block header
TopBlock(lines) ==
    SelectSeq([i \in DOMAIN lines |->
                  IF Cardinality({j \in 1..i : lines[j].kind = "header"}) <= 1
                  THEN lines[i] ELSE TextLine],
              LAMBDA l : l.kind # "text" /\ l.kind # "header")

\* the key a top block item gives, and its raw value
GivenKey(l) == IF l.kind = "magic_backport_mode" THEN m_key("ignore-lintian", NoValue) ELSE l.key
GivenRaw(l) == IF l.kind = "magic_backport_mode" THEN <<"t", "r", "u", "e">> ELSE l.raw

KeyGivenTwice(lines) ==
    LET top == TopBlock(lines)
    IN \E i, j \in DOMAIN top :
          /\ i < j
          /\ GivenKey(top[i]) = GivenKey(top[j])
          /\ ~(top[i].kind = "magic_backport_mode" /\ top[j].kind = "magic_backport_mode")

UnknownKeyGiven(lines) ==
    \E i \in DOMAIN TopBlock(lines) : GivenKey(TopBlock(lines)[i])[1] \notin DOMAIN OPTIONS

InvalidValueGiven(lines) ==
    LET top == TopBlock(lines)
    IN \E i \in DOMAIN top :
          /\ GivenKey(top[i])[1] \in DOMAIN OPTIONS
          /\ convert(OPTIONS[GivenKey(top[i])[1]], sub_whitespace(GivenRaw(top[i]))) = <<>>

IsGiven(lines, k) == \E i \in DOMAIN TopBlock(lines) : GivenKey(TopBlock(lines)[i]) = k

GivenValue(lines, k) ==
    LET top == TopBlock(lines)
        i == CHOOSE i \in DOMAIN top : GivenKey(top[i]) = k
    IN convert(OPTIONS[k[1]], sub_whitespace(GivenRaw(top[i])))[1]

OptDefault(key) ==
    CASE OPTIONS[key] = "Bool" -> FALSE
      [] OPTIONS[key] = "Int" -> 0
      [] OTHER -> <<>>

\* Options.get(key, alt=a) gives key[a] if given, else key if given, else the default
GetAsGiven(lines, options) ==
    \A key \in DOMAIN OPTIONS : \A alt \in {NoValue, "i386", "amd64"} :
        Options_get(options, key, alt, OptDefault(key)) =
            IF alt # NoValue /\ IsGiven(lines, m_key(key, alt))
            THEN GivenValue(lines, m_key(key, alt))
            ELSE IF IsGiven(lines, m_key(key, NoValue))
                 THEN GivenValue(lines, m_key(key, NoValue))
                 ELSE OptDefault(key)

\* C25 (as stated): parsing the upload options raises exactly on a key given
\* twice or a key with an unknown base name; otherwise get returns key[a],
\* else key, else the default, from the top changelog block only.
C25_RaisesOnKeysOnly ==
    opt_out # <<>> =>
        /\ (opt_out[1].raised # NoValue) <=> (KeyGivenTwice(opt_in) \/ UnknownKeyGiven(opt_in))
        /\ opt_out[1].raised = NoValue => GetAsGiven(opt_in, opt_out[1].options)

\* C25 (amended): parsing the upload options raises exactly on a key given
\* twice, a key with an unknown base name, or a value its option type cannot
\* convert; otherwise get returns key[a], else key, else the default, and
\* only the top changelog block counts.
C25_UploadOptions ==
    opt_out # <<>> =>
        /\ (opt_out[1].raised # NoValue) <=>
               (KeyGivenTwice(opt_in) \/ UnknownKeyGiven(opt_in) \/ InvalidValueGiven(opt_in))
        /\ opt_out[1].raised = NoValue => GetAsGiven(opt_in, opt_out[1].options)

\* options parsed with key and key[alt] given on top and another value of the
\* key in the block below
C25_Witness ==
    /\ opt_out # <<>>
    /\ opt_out[1].raised = NoValue
    /\ IsGiven(opt_in, m_key("ignore-lintian", NoValue))
    /\ IsGiven(opt_in, m_key("ignore-lintian", "i386"))
    /\ Options_get(opt_out[1].options, "ignore-lintian", "i386", FALSE)
           # Options_get(opt_out[1].options, "ignore-lintian", "amd64", FALSE)
    /\ \E i \in DOMAIN opt_in :
          /\ opt_in[i].kind = "option"
          /\ Cardinality({j \in 1..i : opt_in[j].kind = "header"}) = 2

(***************************************************************************)
(* C26: the .upload file makes Changes.upload idempotent.                  *)
(***************************************************************************)
\* the up_transfers of the manifest itself, which is stored last
ManifestTransfers == SelectSeq(up_transfers, LAMBDA t : t[2] = "changes")

WaitingBesides(t) == {u \in BqThreads \ {t} : bq_pc[u] = "active_put"}

\* the put calls in progress, and those of them not yet admitted
PutsInProgress == {t \in BqThreads : bq_pc[t] # "idle"}

\* C27: a put is admitted only when active + pending < maxsize, pending being
\* the other put calls that wait for admission.
C27_PutBlocks ==
    [][\A t \in BqThreads :
          (bq_pc[t] = "active_put" /\ bq_pc'[t] = "queue_put") =>
              bq_active + Cardinality(WaitingBesides(t)) < build_queue_size]_vars

C29_PendingCounts ==
    /\ Cardinality({t \in BqThreads : bq_pc[t] = "active_put"}) <= bq_pending
    /\ bq_pending <= Cardinality(PutsInProgress)
    /\ PutsInProgress = {} => bq_pending = 0

(***************************************************************************)
(* C30: the keyring swap and concurrent readers.                           *)
(***************************************************************************)
\* C30: get_remotes and get_uploaders never return a keyring that is closed
\* at the time of the return, and the rebuild runs at most once per update.
C30_KeyringSwapAtomic ==
    /\ \A t \in KrThreads : kr_ret[t] # <<>> => ~kr_ret[t][1].closed
    /\ kr_nrebuilds <= kr_nupdates

(***************************************************************************)
(* C31: no keyring update is lost.                                         *)
(***************************************************************************)
\* C31: a get_remotes / get_uploaders call returns a keyring built from a
\* configuration at least as recent as the last set_needs_update call made
\* before the call started.
C31_NoUpdateLost ==
    \A t \in KrThreads :
        kr_ret[t] # <<>> => kr_version[kr_ret[t][1].keyring] >= kr_start[t]

(***************************************************************************)
(* C36: status and last_checked of a StatusModel object.                   *)
(***************************************************************************)
\* C36: an object in status Removed has last_checked = CHECK_NONE and an
\* object in status Active has a real check stamp.
C36_StatusAndLastChecked ==
    \A r \in DOMAIN sm_obj :
        /\ sm_obj[r].status = STATUS_REMOVED => sm_obj[r].last_checked = CHECK_NONE
        /\ sm_obj[r].status = STATUS_ACTIVE => sm_obj[r].last_checked > CHECK_MAX

\* C32: a remote whose check fails in a dispatch round is skipped in that
\* round only: it is not attempted, the round's result is the one the other
\* candidates alone would give, the remote stays in the set of remotes the
\* next round checks, and a remote whose check succeeds is Active with a
\* real check stamp and entered under its load when it has the chroot.
C32_FailedRemoteSkippedOnce ==
    /\ \A r \in Candidates \ {"self"} :
           r \in Range(mbd_get_active_or_auto_reactivate(sm_obj))
    /\ sm_last # <<>> =>
           LET l == sm_last[1]
           IN \A r \in Range(l.order) \ {"self"} :
                  IF r \in l.raised
                  THEN /\ r \notin Range(l.res.attempts)
                       /\ l.res = upload_buildrequest(without(l.order, r), l.inp)
                       /\ ~mbd_is_active(sm_obj[r])
                  ELSE /\ sm_obj[r].status = STATUS_ACTIVE
                       /\ mbd_is_checked(sm_obj[r])
                       /\ (l.inp["self"].reach /\ l.inp[r].chroot
                           /\ \A c \in Range(l.order) \ {r} : l.inp[c].load # l.inp[r].load)
                          => /\ l.inp[r].load \in DOMAIN l.res.remotes
                             /\ l.res.remotes[l.inp[r].load] = r

\* a remote skipped in an earlier round took the build request in this one
C32_SkippedRemoteUsedAgain ==
    /\ sm_last # <<>>
    /\ sm_last[1].res.ok
    /\ sm_last[1].res.url \in sm_last[1].skipped
    /\ \E r \in sm_last[1].raised : sm_obj[r].last_checked = CHECK_REACTIVATE

(***************************************************************************)
(* C33, C34, C35, C39, C40: the running daemon.                            *)
(***************************************************************************)
\* C33: the ingest consumer never waits for the build queue: whenever
\* daemon.run is in its loop and an event is on the incoming queue, its next
\* turn can be taken, whatever the build queue holds; build requests taken
\* while the queue is full wait in "build queuer" threads.
C33_ConsumerNeverBlocks ==
    /\ (rt_pc = "get" /\ rt_incoming # <<>>) => ENABLED incoming_get
    /\ \A h \in rt_helpers : h.by = "build queuer"

\* an upload or build result was handled while a build request taken before
\* it waited for a slot of the full build queue
C33_HandledBehindWaitingRequest ==
    \E i \in DOMAIN rt_handled :
        \E n \in rt_handled[i].behind : n < rt_handled[i].n

\* C34: two build threads that run at the same time on the builder have
\* different spool directories and different keys in Daemon.builds.
C34_BuildsDistinct ==
    \A b1 \in rt_builds : \A b2 \in rt_builds \ {b1} :
        (b1.pc = "building" /\ b2.pc = "building") =>
            /\ get_spool_dir(b1.n) # get_spool_dir(b2.n)
            /\ Build_key(b1.n) # Build_key(b2.n)

\* the build queue in use is full
BuildQueueFull == full(rt_active[rt_gen], rt_maxsize)

C39_TaskDoneSameQueue ==
    /\ \A d \in rt_done : d.released = d.q
    /\ \A g \in DOMAIN rt_queue :
           Cardinality({e \in Range(rt_queue[g]) : e # ShutdownId})
               + Cardinality(Unreleased(g)) <= rt_maxsize

\* C40: the builder loop serves requests until it takes the sentinel, and
\* the slots held of a build queue are those of the events queued, of the
\* build threads that have not called task_done, and of the sentinel taken.
C40_SlotReleasedOnce ==
    /\ rt_builder # "dead"
    /\ rt_active[1] = Len(rt_queue[1]) + Cardinality(Unreleased(1))
                          + (IF rt_builder = "done" THEN 1 ELSE 0)

(***************************************************************************)
(* C37, C38: the in-flight package and its build-results.                  *)
(***************************************************************************)
\* C37: for the in-flight package, the architectures filed under success and
\* those filed under failed are disjoint and are architectures requested.
C37_ResultKeysDisjoint ==
    PID \in packages =>
        /\ DOMAIN success \cap DOMAIN failed = {}
        /\ DOMAIN success \subseteq requests
        /\ DOMAIN failed \subseteq requests
        /\ Cardinality(DOMAIN success) + Cardinality(DOMAIN failed) <= Cardinality(requests)

\* packager.run is not in progress: no precheck and no package_close under way
RunReturned == status # "CHECKING" /\ cl_pc \in {"none", "closed"}

\* C38: whenever packager.run is not in progress, the package is in the map
\* exactly if its status is BUILDING, whether or not moving the logs and
\* sending the notification succeeded; and an upload of a package that is in
\* the map leaves the map and the tracked package as they are.
C38_MapHoldsBuilding ==
    /\ [](RunReturned => (PID \in packages <=> status = "BUILDING"))
    /\ [][(ninject' # ninject) =>
              UNCHANGED <<packages, status, trace, requests, success, failed, finished>>]_vars

\* a package was closed although moving its logs or sending its notification
\* failed, after an upload of the same package had been refused
C38_ClosedAfterFailure ==
    /\ cl_pc = "closed"
    /\ notifications = 0
    /\ ninject > 0
    /\ PID \notin packages

====
